---- MODULE Spec2Model ----
(***************************************************************************)
(* ControlFin: the hierarchical transaction ledger of src/App.tsx.         *)
(*                                                                         *)
(* The state is the React state of the App component: the ledger           *)
(* (userData.transactions, userData.categories), the state of the          *)
(* transaction dialog (editingTransaction, subItemParentId,                *)
(* isTransactionModalOpen and the fields of its form), the state of the    *)
(* delete confirmation                                                     *)
(* (itemToDelete, isDeleteConfirmModalOpen) and the wall clock that        *)
(* Date.now() reads.  One action per handler.                              *)
(*                                                                         *)
(* The page stays mounted under both dialogs (renderPage() is called       *)
(* unconditionally, App.tsx:1785) and no handler of App tests a dialog     *)
(* flag, so the handlers of the page remain enabled while a dialog is      *)
(* open.                                                                   *)
(***************************************************************************)
EXTENDS Integers, Sequences, FiniteSets, TLC

VARIABLES transactions, categories, editingTransaction, subItemParentId,
          isTransactionModalOpen, form, itemToDelete, isDeleteConfirmModalOpen, now,
          currency, theme, chatHistory, selectedMonth, isLoading, handleSendCalls,
          currentUser, effects, ledgerOwner, localStorage,
          caches, worker, fetchEvents,
          userProfiles, userPasswords, loginScreen, profilesDb

vars == <<transactions, categories, editingTransaction, subItemParentId,
          isTransactionModalOpen, form, itemToDelete, isDeleteConfirmModalOpen, now,
          currency, theme, chatHistory, selectedMonth, isLoading, handleSendCalls,
          currentUser, effects, ledgerOwner, localStorage,
          caches, worker, fetchEvents,
          userProfiles, userPasswords, loginScreen, profilesDb>>

ledgerVars == <<transactions, categories>>
\* form holds the fields of TransactionModal: description, amount, date, type,
\* category
txDialogVars == <<editingTransaction, subItemParentId, isTransactionModalOpen, form>>
deleteDialogVars == <<itemToDelete, isDeleteConfirmModalOpen>>
\* the rest of userData: currency, theme, chatHistory
restVars == <<currency, theme, chatHistory>>
\* FinAssist: isLoading, and the calls of handleSend, each with the props its
\* closure holds and its position (awaiting the response, or done)
assistVars == <<isLoading, handleSendCalls>>
\* the session: the account logged in, the effects of a commit that have not
\* run yet, and ledgerOwner, which records the account the in-memory ledger
\* was loaded for (memory) and, for each key, the account whose ledger its
\* blob was written from (blobs)
sessionVars == <<currentUser, effects, ledgerOwner>>
\* the service worker: the caches of the origin, the position of the worker's
\* install and activate handlers, and the fetch events being handled
workerVars == <<caches, worker, fetchEvents>>
\* accounts: userProfiles and userPasswords of App, the state of LoginScreen
\* (view, userToVerify, emailToReset) and the two items of localStorage that
\* hold the profiles and the passwords
authVars == <<userProfiles, userPasswords, loginScreen, profilesDb>>
\* what no handler of a page touches
offPageVars == <<workerVars, authVars>>
\* what no handler of the ledger touches
shellVars == <<restVars, selectedMonth, assistVars, sessionVars, offPageVars>>

(***************************************************************************)
(* Bounds of the model.                                                    *)
(***************************************************************************)
\* number of clock readings after the first one
MaxTicks == 1
\* largest number of records the ledger holds
MaxRecords == 3
\* largest magnitude of an amount the ledger holds
MaxAmount == 3
\* largest number of records in the concrete scenario of section 8
ScenarioMaxRecords == 4
\* largest number of categories the settings page adds
MaxNewCategories == 2

(***************************************************************************)
(* Values.                                                                 *)
(***************************************************************************)
\* parentId absent (undefined); every real id is a clock reading >= 1
NoParent == 0
\* editingTransaction = null
NoTransaction ==
    [id |-> 0, description |-> "", amount |-> 0, date |-> [ym |-> "", day |-> 0, time |-> ""],
     type |-> "", category |-> "", parentId |-> 0, subItemsLength |-> 0]
\* itemToDelete = null
NoItem == [type |-> "none", id |-> [kind |-> "none", n |-> 0]]
\* the form field amount holds '' (useState<number | ''>); a number n is <<n>>
NoAmount == <<>>
\* the form field date holds ''
NoDate == [ym |-> "", day |-> 0]
\* new Date().toISOString().slice(0, 10) when the form is reset
Today == [ym |-> "2024-01", day |-> 15]

INCOME == "INCOME"
EXPENSE == "EXPENSE"

\* currentUser = null
NoUser == ""
\* the usernames of the model: 'admin', which the first effect of App makes
\* sure exists, and one account that registers
Users == {"admin", "ana"}
\* localStorage.getItem(key) = null; a stored string is <<value>>
NoBlob == <<>>

\* ids of the initial categories are 'cat1'..'cat5'; ids made by the settings
\* page are `cat${Date.now()}`: the two kinds never coincide for a clock of
\* this century, so an id is its kind and its number
InitialCategoryId(n) == [kind |-> "initial", n |-> n]
\* the id of a record is `trans${Date.now()}`: the clock reading t; where a
\* record id and a category id share a field (itemToDelete.id) it is
TransactionItemId(t) == [kind |-> "trans", n |-> t]
ClockCategoryId(t) == [kind |-> "clock", n |-> t]

\* names are written without accents ('Salário' is "Salario")
INITIAL_CATEGORIES ==
    << [id |-> InitialCategoryId(1), name |-> "Supermercado"],
       [id |-> InitialCategoryId(2), name |-> "Contas de Casa"],
       [id |-> InitialCategoryId(3), name |-> "Aluguel"],
       [id |-> InitialCategoryId(4), name |-> "Salario"],
       [id |-> InitialCategoryId(5), name |-> "Lazer"] >>

(***************************************************************************)
(* String functions over the names the model uses.                         *)
(***************************************************************************)
\* String.prototype.trim
Trim(s) ==
    CASE s = " " -> ""
      [] s = " Extra" -> "Extra"
      [] OTHER -> s

\* String.prototype.toLowerCase
ToLowerCase(s) ==
    CASE s = "Supermercado" -> "supermercado"
      [] s = "Contas de Casa" -> "contas de casa"
      [] s = "Aluguel" -> "aluguel"
      [] s = "ALUGUEL" -> "aluguel"
      [] s = "Salario" -> "salario"
      [] s = "Lazer" -> "lazer"
      [] s = "Extra" -> "extra"
      [] s = " Extra" -> " extra"
      [] s = "ANA@X.IO" -> "ana@x.io"
      [] OTHER -> s

\* c.name.toLowerCase().includes('salario') || ...includes('freelance'),
\* over the names the model uses
IsIncomeName(s) == ToLowerCase(s) \in {"salario", "freelance"}

(***************************************************************************)
(* Sequence helpers (Array.prototype.filter / map / reduce / find).        *)
(***************************************************************************)
Range(s) == {s[i] : i \in 1..Len(s)}

RECURSIVE SumAmounts(_)
\* .reduce((sum, item) => sum + item.amount, 0)
SumAmounts(s) == IF s = <<>> THEN 0 ELSE s[1].amount + SumAmounts(Tail(s))

\* the model explores ledgers whose amounts stay within a magnitude
AmountsWithin(txs, max) == \A t \in Range(txs) : t.amount \in (0 - max)..max

\* the sub-items of id in a flat list: .filter(t => t.parentId === id)
ChildrenOf(txs, id) == SelectSeq(txs, LAMBDA t : t.parentId = id)

(***************************************************************************)
(* Tree Builder (transactionsWithSubItems) as far as the pages use it:     *)
(* which records are roots, which node an id denotes, which rows exist.    *)
(***************************************************************************)
Ids(txs) == {t.id : t \in Range(txs)}

\* transactionMap[id]: forEach overwrites, so the last record with that id
TransactionMapEntry(txs, id) ==
    LET idx == {i \in 1..Len(txs) : txs[i].id = id}
    IN  txs[CHOOSE i \in idx : \A j \in idx : j <= i]

\* a record is pushed to rootTransactions unless its parentId resolves
IsRootRecord(txs, t) == ~(t.parentId # NoParent /\ t.parentId \in Ids(txs))

RootIds(txs) == {t.id : t \in {r \in Range(txs) : IsRootRecord(txs, r)}}

RECURSIVE RenderedFrom(_, _)
\* ids of the rows the page renders: the roots, and under every rendered
\* node its subItems (renderTransactionCard recurses into subItems)
RenderedFrom(txs, S) ==
    LET next == S \cup {t.id : t \in {r \in Range(txs) :
                          ~IsRootRecord(txs, r) /\ r.parentId \in S}}
    IN  IF next = S THEN S ELSE RenderedFrom(txs, next)

RenderedIds(txs) == RenderedFrom(txs, RootIds(txs))

\* the node handed to onEditTransaction: the map entry with its subItems
TreeNode(txs, id) ==
    LET t == TransactionMapEntry(txs, id)
    IN  [id |-> t.id, description |-> t.description, amount |-> t.amount,
         date |-> t.date, type |-> t.type, category |-> t.category,
         parentId |-> t.parentId,
         subItemsLength |-> Len(ChildrenOf(txs, id))]

(***************************************************************************)
(* Dashboard totals over the flat list (selectedMonth = 'all').            *)
(***************************************************************************)
totalIncome(txs) ==
    SumAmounts(SelectSeq(txs, LAMBDA t : t.type = INCOME /\ t.parentId = NoParent))

\* totalExpense with the test on parentId left out: sub-items counted again
totalExpenseWithSubItems(txs) ==
    SumAmounts(SelectSeq(txs, LAMBDA t : t.type = EXPENSE))

totalExpense(txs) ==
    SumAmounts(SelectSeq(txs, LAMBDA t : t.type = EXPENSE /\ t.parentId = NoParent))

balance(txs) == totalIncome(txs) - totalExpense(txs)

(***************************************************************************)
(* The form of the transaction dialog.                                     *)
(***************************************************************************)
\* new Date(date).toISOString(): 'YYYY-MM-DD' becomes 'YYYY-MM-DDT00:00:00.000Z'
ToISOString(date) == [ym |-> date.ym, day |-> date.day, time |-> "T00:00:00.000Z"]

\* new Date(iso).toISOString().slice(0, 10)
DateOfISOString(iso) == [ym |-> iso.ym, day |-> iso.day]

\* the categories the select of the form offers for a type
relevantCategories(cats, type) ==
    IF type = INCOME
    THEN SelectSeq(cats, LAMBDA c : IsIncomeName(c.name))
    ELSE SelectSeq(cats, LAMBDA c : ~IsIncomeName(c.name))

\* the effect on [type, relevantCategories, category]: a category that is not
\* the name of a relevant category becomes relevantCategories[0]?.name || ''
NormalizedCategory(f, cats) ==
    IF \E c \in Range(relevantCategories(cats, f.type)) : c.name = f.category
    THEN f
    ELSE [f EXCEPT !.category =
            IF relevantCategories(cats, f.type) = <<>> THEN ""
            ELSE relevantCategories(cats, f.type)[1].name]

\* the effect on [editingTransaction, isOpen, categories]: the fields are
\* loaded from the record being edited, or reset
InitialForm(editing, cats) ==
    IF editing # NoTransaction
    THEN NormalizedCategory(
            [description |-> editing.description, amount |-> <<editing.amount>>,
             date |-> DateOfISOString(editing.date), type |-> editing.type,
             category |-> editing.category], cats)
    ELSE NormalizedCategory(
            [description |-> "", amount |-> NoAmount, date |-> Today,
             type |-> EXPENSE,
             category |-> IF cats = <<>> THEN "" ELSE cats[1].name], cats)

(***************************************************************************)
(* Accounts and the service worker: values, and the state the pages find.  *)
(***************************************************************************)
\* verificationCode: undefined
NoCode == "undefined"
\* userProfiles[username] === undefined
NoProfile ==
    [username |-> NoUser, displayName |-> "", email |-> "", isVerified |-> FALSE,
     verificationCode |-> NoCode]
\* userPasswords[username] === undefined
NoPassword == "undefined"
\* emailToReset = null
NoEmail == "null"
\* error = ''
NoError == ""

\* the messages of the errors the account handlers throw, and of those
\* LoginScreen.handleSubmit throws before it calls a handler
ErrorMessages ==
    [InvalidLogin |-> "Usuario ou senha invalidos.",
     NotVerified |->
         "Sua conta nao foi verificada. Por favor, cadastre-se novamente para receber um novo codigo.",
     UsernameExists |-> "Este nome de usuario ja existe.",
     EmailInUse |-> "Este e-mail ja esta em uso.",
     InvalidVerificationCode |-> "Codigo de verificacao invalido.",
     EmailNotFound |-> "Nenhum usuario encontrado com este e-mail.",
     UserNotFound |-> "Usuario nao encontrado.",
     InvalidResetCode |-> "Codigo de recuperacao invalido.",
     PasswordsDiffer |-> "As senhas nao coincidem.",
     PasswordTooShort |-> "A senha deve ter pelo menos 6 caracteres.",
     InvalidVerifySession |->
         "Sessao de verificacao invalida. Tente se cadastrar novamente.",
     InvalidResetSession |-> "Sessao de recuperacao invalida."]

\* the profile the first effect of App stores for 'admin', with password 'admin'
AdminProfile ==
    [username |-> "admin", displayName |-> "Admin", email |-> "admin@controlfin.app",
     isVerified |-> TRUE, verificationCode |-> NoCode]

\* the state of LoginScreen when it mounts
LoginScreenMounted ==
    [view |-> "login", userToVerify |-> NoUser, emailToReset |-> NoEmail, error |-> NoError]

\* String.prototype.length of the passwords the model types
Length(s) ==
    CASE s = "admin" -> 5
      [] s = "abc" -> 3
      [] s = "secret1" -> 7
      [] s = "secret2" -> 7
      [] OTHER -> 0

\* Object.entries / Object.values of userProfiles list 'admin' first: the
\* first effect of App inserts it before any account registers
ProfileOrder == <<"admin", "ana">>

\* Object.entries(userProfiles).find(([_, profile]) =>
\*     profile.email.toLowerCase() === email.toLowerCase()): the username of
\* the entry found, NoUser for undefined
FindByEmail(profiles, email) ==
    LET found == {i \in 1..Len(ProfileOrder) :
                     /\ profiles[ProfileOrder[i]] # NoProfile
                     /\ ToLowerCase(profiles[ProfileOrder[i]].email) = ToLowerCase(email)}
    IN  IF found = {} THEN NoUser
        ELSE ProfileOrder[CHOOSE i \in found : \A j \in found : i <= j]

\* the tests of handleLogin without the test of isVerified
handleLoginErrorUnverified(profiles, passwords, username, password) ==
    IF profiles[username] = NoProfile \/ passwords[username] # password
    THEN ErrorMessages.InvalidLogin
    ELSE NoError

\* the error handleLogin throws, NoError when it throws none
handleLoginError(profiles, passwords, username, password) ==
    IF profiles[username] = NoProfile \/ passwords[username] # password
    THEN ErrorMessages.InvalidLogin
    ELSE IF ~profiles[username].isVerified THEN ErrorMessages.NotVerified
    ELSE NoError

\* the error handleRegister throws
handleRegisterError(profiles, username, email) ==
    IF profiles[username] # NoProfile THEN ErrorMessages.UsernameExists
    ELSE IF \E u \in Users : /\ profiles[u] # NoProfile
                             /\ ToLowerCase(profiles[u].email) = ToLowerCase(email)
    THEN ErrorMessages.EmailInUse
    ELSE NoError

\* the error handleVerifyEmail throws
handleVerifyEmailError(profiles, username, code) ==
    IF profiles[username] = NoProfile \/ profiles[username].verificationCode # code
    THEN ErrorMessages.InvalidVerificationCode
    ELSE NoError

\* the error handleResetPassword throws
handleResetPasswordError(profiles, email, code) ==
    IF FindByEmail(profiles, email) = NoUser THEN ErrorMessages.UserNotFound
    ELSE IF profiles[FindByEmail(profiles, email)].verificationCode # code
    THEN ErrorMessages.InvalidResetCode
    ELSE NoError

\* the profile handleResetPassword stores, with the code left in place
WithCodeKept(profile) == profile

\* { ...profile, verificationCode: undefined }
WithCodeCleared(profile) == [profile EXCEPT !.verificationCode = NoCode]

\* the accounts as the first effect of App loads them when 'ana' has
\* registered and verified in an earlier visit
AccountsLoaded ==
    /\ userProfiles = [u \in Users |->
                          IF u = "admin" THEN AdminProfile
                          ELSE [username |-> u, displayName |-> u, email |-> "ana@x.io",
                                isVerified |-> TRUE, verificationCode |-> NoCode]]
    /\ userPasswords = [u \in Users |-> IF u = "admin" THEN "admin" ELSE "secret1"]
    /\ loginScreen = LoginScreenMounted
    /\ profilesDb = [profiles |-> userProfiles, passwords |-> userPasswords]

\* the accounts as the first effect of App loads them on the first visit
AdminLoaded ==
    /\ userProfiles = [u \in Users |-> IF u = "admin" THEN AdminProfile ELSE NoProfile]
    /\ userPasswords = [u \in Users |-> IF u = "admin" THEN "admin" ELSE NoPassword]
    /\ loginScreen = LoginScreenMounted
    /\ profilesDb = [profiles |-> userProfiles, passwords |-> userPasswords]

CACHE_NAME == "controlfin-cache-v1"
CORE_ASSETS ==
    {"./", "./index.html", "./bundle.js", "./manifest.json", "https://cdn.tailwindcss.com",
     "https://rsms.me/inter/inter.css",
     "https://www.transparenttextures.com/patterns/stardust.png"}

\* the cache names of the origin: the worker's own and two of other versions
CacheNames == {CACHE_NAME, "controlfin-cache-v0", "other-cache"}
\* the URLs requested: the core assets and one more
Urls == CORE_ASSETS \cup {"./icon.png"}
\* caches.has(name) is false
NoCache == <<>>
\* cache.match(request) resolves to undefined
NoResponse == [status |-> 0, body |-> 0]
\* a cache with no entry
EmptyCache == [url \in Urls |-> NoResponse]

\* the worker after install and activate, with the core assets in its cache
WorkerActivated ==
    /\ caches = [name \in CacheNames |->
                    IF name = CACHE_NAME
                    THEN [url \in Urls |-> IF url \in CORE_ASSETS
                                          THEN [status |-> 200, body |-> 1]
                                          ELSE NoResponse]
                    ELSE NoCache]
    /\ worker = [install |-> "done", activate |-> "done", keys |-> {}, cacheNames |-> {}]
    /\ fetchEvents = <<>>

(***************************************************************************)
(* userData and its blob in localStorage.                                  *)
(***************************************************************************)
DEFAULT_USER_DATA ==
    [transactions |-> <<>>, categories |-> INITIAL_CATEGORIES, currency |-> "BRL",
     chatHistory |-> <<>>, theme |-> "galaxy"]

\* the state userData of App
userData ==
    [transactions |-> transactions, categories |-> categories, currency |-> currency,
     chatHistory |-> chatHistory, theme |-> theme]

\* JSON.stringify(userData): the string that holds the five fields
JSONStringify(data) == <<data>>

\* the effects a render leaves to run, with the values their closures hold
LoadEffect(user) == [kind |-> "load", user |-> user]
SaveEffectOf(user, data, owner) ==
    [kind |-> "save", user |-> user, data |-> data, owner |-> owner]

\* the same save effect, writing nothing
SaveIgnored(e) == localStorage

\* the body of the save effect for the closure e
Save(e) == [localStorage EXCEPT ![e.user] = JSONStringify(e.data)]

\* the save effect after a handler has changed userData: the commit renders
\* the new userData and the effect writes it under the key of currentUser
SaveEffect ==
    localStorage' =
        IF currentUser # NoUser
        THEN Save(SaveEffectOf(currentUser, userData', ledgerOwner.memory))
        ELSE localStorage

(***************************************************************************)
(* Initial state of the ledger specifications: 'admin' logged in, its      *)
(* first load done (DEFAULT_USER_DATA, saved), both dialogs closed.        *)
(***************************************************************************)
Init ==
    /\ transactions = DEFAULT_USER_DATA.transactions
    /\ categories = DEFAULT_USER_DATA.categories
    /\ currency = DEFAULT_USER_DATA.currency
    /\ chatHistory = DEFAULT_USER_DATA.chatHistory
    /\ theme = DEFAULT_USER_DATA.theme
    /\ editingTransaction = NoTransaction
    /\ subItemParentId = NoParent
    /\ isTransactionModalOpen = FALSE
    /\ form = InitialForm(NoTransaction, INITIAL_CATEGORIES)
    /\ itemToDelete = NoItem
    /\ isDeleteConfirmModalOpen = FALSE
    /\ now = 1
    /\ selectedMonth = "all"
    /\ isLoading = FALSE
    /\ handleSendCalls = <<>>
    /\ currentUser = "admin"
    /\ effects = <<>>
    /\ ledgerOwner = [memory |-> "admin",
                      blobs |-> [u \in Users |-> IF u = "admin" THEN "admin" ELSE NoUser]]
    /\ localStorage = [u \in Users |->
                          IF u = "admin" THEN JSONStringify(DEFAULT_USER_DATA) ELSE NoBlob]
    /\ AccountsLoaded
    /\ WorkerActivated

\* time passes: a later Date.now() reads a later value; two readings with no
\* Tick between them read the same millisecond
Tick(maxTicks) ==
    /\ now < 1 + maxTicks
    /\ now' = now + 1
    /\ UNCHANGED <<ledgerVars, txDialogVars, deleteDialogVars, shellVars, localStorage>>

(***************************************************************************)
(* Transaction dialog.                                                     *)
(***************************************************************************)
\* openTransactionModal(transaction?, parentId?), and the effect that loads
\* the form
openTransactionModal(transaction, parentId) ==
    /\ editingTransaction' = transaction
    /\ subItemParentId' = parentId
    /\ isTransactionModalOpen' = TRUE
    /\ form' = InitialForm(transaction, categories)

\* the button "Adicionar Transação": onAddTransaction()
OpenAddTransaction ==
    /\ openTransactionModal(NoTransaction, NoParent)
    /\ UNCHANGED <<ledgerVars, deleteDialogVars, now, shellVars, localStorage>>

\* the button "Adicionar Subitem" of a row with !isSubItem: the rows of the
\* roots of the tree
OpenAddSubItem ==
    \E id \in RootIds(transactions) :
        /\ openTransactionModal(NoTransaction, id)
        /\ UNCHANGED <<ledgerVars, deleteDialogVars, now, shellVars, localStorage>>

\* the button "Editar" of any rendered row: onEditTransaction(t)
OpenEditTransaction ==
    \E id \in RenderedIds(transactions) :
        /\ openTransactionModal(TreeNode(transactions, id), NoParent)
        /\ UNCHANGED <<ledgerVars, deleteDialogVars, now, shellVars, localStorage>>

\* onClose of the TransactionModal, and the effect that resets the form
CloseTransactionModal ==
    /\ isTransactionModalOpen
    /\ isTransactionModalOpen' = FALSE
    /\ editingTransaction' = NoTransaction
    /\ subItemParentId' = NoParent
    /\ form' = InitialForm(NoTransaction, categories)
    /\ UNCHANGED <<ledgerVars, deleteDialogVars, now, shellVars, localStorage>>

\* a field of the open form is typed into
SetField(f) ==
    /\ isTransactionModalOpen
    /\ form' = f
    /\ UNCHANGED <<ledgerVars, editingTransaction, subItemParentId,
                   isTransactionModalOpen, deleteDialogVars, now, shellVars,
                   localStorage>>

setDescription(v) == SetField([form EXCEPT !.description = v])

\* the amount input is rendered only when !hasSubItems
setAmount(v) ==
    /\ editingTransaction.subItemsLength = 0
    /\ SetField([form EXCEPT !.amount = v])

setDate(v) == SetField([form EXCEPT !.date = v])

\* with the effect that keeps the category among the relevant ones
setType(v) == SetField(NormalizedCategory([form EXCEPT !.type = v], categories))

\* parent re-derivation of handleSaveTransaction
RederiveParent(txs, parentId) ==
    [i \in 1..Len(txs) |->
        IF txs[i].id = parentId
        THEN [txs[i] EXCEPT !.amount = SumAmounts(ChildrenOf(txs, parentId))]
        ELSE txs[i]]

\* the body of setUserData(prev => ...) in handleSaveTransaction
SavedTransactions(prev, editing, data, clock) ==
    LET updated ==
            IF editing # NoTransaction
            THEN [i \in 1..Len(prev) |->
                    IF prev[i].id = editing.id
                    THEN [id |-> prev[i].id, description |-> data.description,
                          amount |-> data.amount, date |-> data.date,
                          type |-> data.type, category |-> data.category,
                          parentId |-> data.parentId]
                    ELSE prev[i]]
            ELSE Append(prev, [id |-> clock, description |-> data.description,
                               amount |-> data.amount, date |-> data.date,
                               type |-> data.type, category |-> data.category,
                               parentId |-> data.parentId])
    IN  IF data.parentId # NoParent
        THEN RederiveParent(updated, data.parentId)
        ELSE updated

\* handleSaveTransaction(transactionData), then onClose()
handleSaveTransaction(data, maxAmount) ==
    /\ transactions' = SavedTransactions(transactions, editingTransaction, data, now)
    /\ AmountsWithin(transactions', maxAmount)
    /\ editingTransaction' = NoTransaction
    /\ subItemParentId' = NoParent
    /\ isTransactionModalOpen' = FALSE
    /\ form' = InitialForm(NoTransaction, categories)
    /\ UNCHANGED <<categories, deleteDialogVars, now, shellVars>>
    /\ SaveEffect

\* the test of handleSubmit: description && amount !== '' && date && category
FormAccepted(f) ==
    f.description # "" /\ f.amount # NoAmount /\ f.date # NoDate /\ f.category # ""

\* the record handleSubmit hands to onSave
SubmittedData(f, editing, parentId) ==
    [description |-> f.description,
     amount |-> IF editing.subItemsLength > 0 THEN editing.amount ELSE f.amount[1],
     date |-> ToISOString(f.date),
     type |-> f.type,
     category |-> f.category,
     parentId |-> IF editing.parentId # NoParent THEN editing.parentId ELSE parentId]

\* TransactionModal.handleSubmit: "Salvar" in the open dialog
handleSubmit(maxRecords, maxAmount) ==
    /\ isTransactionModalOpen
    /\ editingTransaction = NoTransaction => Len(transactions) < maxRecords
    /\ IF FormAccepted(form)
       THEN handleSaveTransaction(
                SubmittedData(form, editingTransaction, subItemParentId), maxAmount)
       ELSE UNCHANGED vars

(***************************************************************************)
(* Delete confirmation.                                                    *)
(***************************************************************************)
\* handleDeleteTransactionRequest(transactionId): the button "Excluir" of any
\* rendered row
handleDeleteTransactionRequest ==
    \E id \in RenderedIds(transactions) :
        /\ itemToDelete' = [type |-> "transaction", id |-> TransactionItemId(id)]
        /\ isDeleteConfirmModalOpen' = TRUE
        /\ UNCHANGED <<ledgerVars, txDialogVars, now, shellVars, localStorage>>

\* the list confirmDeleteTransaction hands to setUserData
DeletedTransactions(txs, transactionId) ==
    IF \A i \in 1..Len(txs) : txs[i].id # transactionId
    THEN txs
    ELSE LET first == CHOOSE i \in 1..Len(txs) :
                          /\ txs[i].id = transactionId
                          /\ \A j \in 1..(i - 1) : txs[j].id # transactionId
             transactionToDelete == txs[first]
             childIds == {t.id : t \in Range(ChildrenOf(txs, transactionId))}
             idsToDelete == {transactionId} \cup childIds
             updated == SelectSeq(txs, LAMBDA t : t.id \notin idsToDelete)
         IN  IF transactionToDelete.parentId # NoParent
             THEN RederiveParent(updated, transactionToDelete.parentId)
             ELSE updated

\* handleDeleteCategoryRequest(categoryId): the button "Excluir" of a
\* category row of the settings page
handleDeleteCategoryRequest(categoryId) ==
    /\ \E c \in Range(categories) : c.id = categoryId
    /\ LET first == CHOOSE i \in 1..Len(categories) :
                         /\ categories[i].id = categoryId
                         /\ \A j \in 1..(i - 1) : categories[j].id # categoryId
           categoryToDelete == categories[first]
           isInUse == \E t \in Range(transactions) : t.category = categoryToDelete.name
       IN  IF isInUse
           THEN UNCHANGED vars
           ELSE /\ itemToDelete' = [type |-> "category", id |-> categoryId]
                /\ isDeleteConfirmModalOpen' = TRUE
                /\ UNCHANGED <<ledgerVars, txDialogVars, now, shellVars, localStorage>>

\* the list confirmDeleteCategory hands to handleUpdateCategories
DeletedCategories(cats, categoryId) == SelectSeq(cats, LAMBDA c : c.id # categoryId)

\* confirmDelete: the confirm button of the open ConfirmationModal
confirmDelete(maxAmount) ==
    /\ isDeleteConfirmModalOpen
    /\ IF itemToDelete = NoItem
       THEN UNCHANGED vars
       ELSE /\ IF itemToDelete.type = "transaction"
               THEN /\ transactions' = DeletedTransactions(transactions, itemToDelete.id.n)
                    /\ AmountsWithin(transactions', maxAmount)
                    /\ UNCHANGED categories
               ELSE /\ categories' = DeletedCategories(categories, itemToDelete.id)
                    /\ UNCHANGED transactions
            /\ form' = IF itemToDelete.type = "transaction" THEN form
                       ELSE InitialForm(editingTransaction, categories')
            /\ isDeleteConfirmModalOpen' = FALSE
            /\ itemToDelete' = NoItem
            /\ UNCHANGED <<editingTransaction, subItemParentId,
                           isTransactionModalOpen, now, shellVars>>
            /\ SaveEffect

\* onClose of the ConfirmationModal: itemToDelete is kept
CloseDeleteConfirmModal ==
    /\ isDeleteConfirmModalOpen
    /\ isDeleteConfirmModalOpen' = FALSE
    /\ UNCHANGED <<ledgerVars, txDialogVars, itemToDelete, now, shellVars, localStorage>>

(***************************************************************************)
(* Settings page: categories.                                              *)
(***************************************************************************)
\* the list handleAddCategory hands to onUpdateCategories
AddedCategories(cats, newCategoryName, clock) ==
    IF /\ Trim(newCategoryName) # ""
       /\ ~\E c \in Range(cats) : ToLowerCase(c.name) = ToLowerCase(Trim(newCategoryName))
    THEN Append(cats, [id |-> ClockCategoryId(clock), name |-> Trim(newCategoryName)])
    ELSE cats

\* handleAddCategory with newCategoryName typed
handleAddCategory(newCategoryName) ==
    /\ Len(categories) < Len(INITIAL_CATEGORIES) + MaxNewCategories
    /\ categories' = AddedCategories(categories, newCategoryName, now)
    /\ form' = IF categories' = categories THEN form
               ELSE InitialForm(editingTransaction, categories')
    /\ UNCHANGED <<transactions, editingTransaction, subItemParentId,
                   isTransactionModalOpen, deleteDialogVars, now, shellVars>>
    /\ SaveEffect

\* the list handleUpdateCategory hands to onUpdateCategories
UpdatedCategories(cats, categoryToUpdate) ==
    IF Trim(categoryToUpdate.name) # ""
    THEN [i \in 1..Len(cats) |->
            IF cats[i].id = categoryToUpdate.id THEN categoryToUpdate ELSE cats[i]]
    ELSE cats

\* handleUpdateCategory(editingCategory): "Salvar" in the row of the category
\* with that id, the name typed into editingCategory
handleUpdateCategory(categoryToUpdate) ==
    /\ \E c \in Range(categories) : c.id = categoryToUpdate.id
    /\ categories' = UpdatedCategories(categories, categoryToUpdate)
    /\ form' = IF Trim(categoryToUpdate.name) = "" THEN form
               ELSE InitialForm(editingTransaction, categories')
    /\ UNCHANGED <<transactions, editingTransaction, subItemParentId,
                   isTransactionModalOpen, deleteDialogVars, now, shellVars>>
    /\ SaveEffect

(***************************************************************************)
(* The ledger specification: the transaction handlers, the categories      *)
(* left as loaded.                                                         *)
(***************************************************************************)
\* values typed into the form of the transaction dialog; the amount input
\* stores parseFloat of what is typed, and the field is '' only after a reset
FormDescriptions == {"", "d"}
FormAmounts == {<<-1>>, <<1>>}
FormDates == {NoDate, Today}
FormTypes == {EXPENSE, INCOME}

Next ==
    \/ Tick(MaxTicks)
    \/ OpenAddTransaction
    \/ OpenAddSubItem
    \/ OpenEditTransaction
    \/ CloseTransactionModal
    \/ \E v \in FormDescriptions : setDescription(v)
    \/ \E v \in FormAmounts : setAmount(v)
    \/ \E v \in FormDates : setDate(v)
    \/ \E v \in FormTypes : setType(v)
    \/ handleSubmit(MaxRecords, MaxAmount)
    \/ handleDeleteTransactionRequest
    \/ confirmDelete(MaxAmount)
    \/ CloseDeleteConfirmModal

Spec == Init /\ [][Next]_vars

(***************************************************************************)
(* The concrete scenario of section 8: an income of 1000, an expense       *)
(* parent of 0, sub-items of 30 and 45, and deletion.                      *)
(***************************************************************************)
ScenarioMaxTicks == 3
ScenarioMaxAmount == 1000
ScenarioAmounts == {<<0>>, <<30>>, <<45>>, <<1000>>}

\* the records the scenario creates, in its order
ScenarioInput(f, parentId, n) ==
    \/ n = 0 /\ f.type = INCOME /\ f.amount = <<1000>> /\ parentId = NoParent
    \/ n = 1 /\ f.type = EXPENSE /\ f.amount = <<0>> /\ parentId = NoParent
    \/ n = 2 /\ f.type = EXPENSE /\ f.amount = <<30>> /\ parentId # NoParent
    \/ n = 3 /\ f.type = EXPENSE /\ f.amount = <<45>> /\ parentId # NoParent

NextScenario ==
    \/ Tick(ScenarioMaxTicks)
    \/ OpenAddTransaction
    \/ OpenAddSubItem
    \/ setDescription("d")
    \/ \E v \in ScenarioAmounts : setAmount(v)
    \/ \E v \in FormTypes : setType(v)
    \/ (ScenarioInput(form, subItemParentId, Len(transactions))
        /\ handleSubmit(ScenarioMaxRecords, ScenarioMaxAmount))
    \/ handleDeleteTransactionRequest
    \/ confirmDelete(ScenarioMaxAmount)

SpecScenario == Init /\ [][NextScenario]_vars

(***************************************************************************)
(* The settings page: categories added, renamed and deleted while          *)
(* records use them.                                                       *)
(***************************************************************************)
CategoryMaxRecords == 1
NewCategoryNames == {"lazer", " Extra", " "}
RenamedCategoryNames == {"ALUGUEL", " "}

\* the rows of the settings page the model acts on: the first initial
\* category and the categories the page added
SettingsRows(cats) ==
    {c \in Range(cats) : c.id = InitialCategoryId(1) \/ c.id.kind = "clock"}

NextCategories ==
    \/ Tick(MaxTicks)
    \/ \E v \in NewCategoryNames : handleAddCategory(v)
    \/ \E c \in SettingsRows(categories), v \in RenamedCategoryNames :
           handleUpdateCategory([id |-> c.id, name |-> v])
    \/ \E c \in SettingsRows(categories) : handleDeleteCategoryRequest(c.id)
    \/ confirmDelete(MaxAmount)
    \/ CloseDeleteConfirmModal
    \/ OpenAddTransaction
    \/ setDescription("d")
    \/ setAmount(<<1>>)
    \/ handleSubmit(CategoryMaxRecords, MaxAmount)
    \/ handleDeleteTransactionRequest

SpecCategories == Init /\ [][NextCategories]_vars

(***************************************************************************)
(* The views of a flat list: month filter, available months, Tree Builder. *)
(***************************************************************************)
\* the months the dates of the model fall in, in the order of their strings
MonthIndex(ym) ==
    CASE ym = "2024-01" -> 1
      [] ym = "2024-02" -> 2
      [] OTHER -> 0

\* new Date(date).getTime(), up to the unit
getTime(date) == MonthIndex(date.ym) * 100 + date.day

\* t.date.slice(0, 7)
Slice7(date) == date.ym

\* t.date.startsWith(selectedMonth), selectedMonth being an option of the
\* month select: 'YYYY-MM'
StartsWith(date, month) == Slice7(date) = month

\* filteredTransactions of Dashboard, TransactionsPage and ReportsPage over
\* the list the page is given
filteredTransactions(list, month) ==
    IF month = "all" THEN list ELSE SelectSeq(list, LAMBDA t : StartsWith(t.date, month))

RECURSIVE SortedDescending(_)
\* Array.from(months).sort().reverse() over a set of month strings
SortedDescending(months) ==
    IF months = {} THEN <<>>
    ELSE LET m == CHOOSE x \in months : \A y \in months : MonthIndex(y) <= MonthIndex(x)
         IN  <<m>> \o SortedDescending(months \ {m})

availableMonths(txs) == SortedDescending({Slice7(t.date) : t \in Range(txs)})

\* ids pushed, in the order of the list, by the second forEach of the Tree
\* Builder: to rootTransactions ...
RootIdSeq(txs) ==
    LET roots == SelectSeq(txs, LAMBDA t : IsRootRecord(txs, t))
    IN  [i \in 1..Len(roots) |-> roots[i].id]

\* ... or to transactionMap[parentId].subItems
SubItemIdSeq(txs, parentId) ==
    LET subs == SelectSeq(txs, LAMBDA t : ~IsRootRecord(txs, t) /\ t.parentId = parentId)
    IN  [i \in 1..Len(subs) |-> subs[i].id]

\* where sort puts a node among nodes already ordered: after those that are
\* not older (the sort is stable, the comparator is b.date - a.date)
InsertByDate(txs, sorted, id) ==
    LET time(x) == getTime(TransactionMapEntry(txs, x).date)
        before == {i \in 1..Len(sorted) : time(sorted[i]) >= time(id)}
        k == IF before = {} THEN 0 ELSE CHOOSE i \in before : \A j \in before : j <= i
    IN  SubSeq(sorted, 1, k) \o <<id>> \o SubSeq(sorted, k + 1, Len(sorted))

RECURSIVE SortByDate(_, _)
\* ids.sort(sortByDate): a comparator sort keeps what already is in order
\* and may order anything else in any consistent way; for dates that are
\* totally ordered the result is the stable descending order
SortByDate(txs, ids) ==
    IF ids = <<>> THEN <<>>
    ELSE InsertByDate(txs, SortByDate(txs, SubSeq(ids, 1, Len(ids) - 1)), ids[Len(ids)])

\* the subItems of the node transactionMap[id] when the builder returns:
\* sorted for the nodes of rootTransactions, as pushed for the others
SubItemsOf(txs, id) ==
    IF id \in RootIds(txs)
    THEN SortByDate(txs, SubItemIdSeq(txs, id))
    ELSE SubItemIdSeq(txs, id)

\* transactionsWithSubItems: the nodes of rootTransactions, sorted; a node is
\* the map entry of its id, its subItems the ids of the nodes pushed to it
transactionsWithSubItems(txs) ==
    LET roots == SortByDate(txs, RootIdSeq(txs))
    IN  [i \in 1..Len(roots) |->
            LET t == TransactionMapEntry(txs, roots[i])
            IN  [id |-> t.id, description |-> t.description, amount |-> t.amount,
                 date |-> t.date, type |-> t.type, category |-> t.category,
                 parentId |-> t.parentId, subItems |-> SubItemsOf(txs, t.id)]]

\* the month select of a page: onMonthChange(e.target.value); the select is
\* rendered when availableMonths.length > 0, its options being 'all' and
\* availableMonths
setSelectedMonth(month) ==
    /\ availableMonths(transactions) # <<>>
    /\ month = "all" \/ \E i \in 1..Len(availableMonths(transactions)) :
                            availableMonths(transactions)[i] = month
    /\ selectedMonth' = month
    /\ UNCHANGED <<ledgerVars, txDialogVars, deleteDialogVars, now, offPageVars, restVars,
                   assistVars, sessionVars, localStorage>>

(***************************************************************************)
(* The views specification: a ledger as it may have been loaded, looked at *)
(* through the month select.                                               *)
(***************************************************************************)
ViewMaxRecords == 3
ViewMaxAmount == 2
ViewDates == {[ym |-> "2024-01", day |-> 15], [ym |-> "2024-02", day |-> 10]}

\* the records a flat list may hold
ViewRecords ==
    [id : 1..ViewMaxRecords, description : {"d"}, amount : 1..ViewMaxAmount,
     date : {ToISOString(d) : d \in ViewDates}, type : {INCOME, EXPENSE},
     category : {"Supermercado"}, parentId : {NoParent} \cup 1..ViewMaxRecords]

ViewLedgers == UNION {[1..n -> ViewRecords] : n \in 0..ViewMaxRecords}

InitViews ==
    /\ transactions \in ViewLedgers
    /\ categories = DEFAULT_USER_DATA.categories
    /\ currency = DEFAULT_USER_DATA.currency
    /\ chatHistory = DEFAULT_USER_DATA.chatHistory
    /\ theme = DEFAULT_USER_DATA.theme
    /\ editingTransaction = NoTransaction
    /\ subItemParentId = NoParent
    /\ isTransactionModalOpen = FALSE
    /\ form = InitialForm(NoTransaction, INITIAL_CATEGORIES)
    /\ itemToDelete = NoItem
    /\ isDeleteConfirmModalOpen = FALSE
    /\ now = 1
    /\ selectedMonth = "all"
    /\ isLoading = FALSE
    /\ handleSendCalls = <<>>
    /\ currentUser = "admin"
    /\ effects = <<>>
    /\ ledgerOwner = [memory |-> "admin",
                      blobs |-> [u \in Users |-> IF u = "admin" THEN "admin" ELSE NoUser]]
    /\ localStorage = [u \in Users |->
                          IF u = "admin" THEN JSONStringify(userData) ELSE NoBlob]
    /\ AccountsLoaded
    /\ WorkerActivated

NextViews == \E month \in {"all", "2024-01", "2024-02"} : setSelectedMonth(month)

SpecViews == InitViews /\ [][NextViews]_vars

(***************************************************************************)
(* FinAssist and the settings that write userData.                         *)
(***************************************************************************)
MaxSends == 2
Prompts == {" ", "p"}
Responses == {"r"}
Currencies == {"BRL", "USD"}
Themes == {"galaxy", "minimalist"}

\* setUserData(next) followed by the commit: the five fields of userData, the
\* form effect of an open or closed TransactionModal when the categories
\* changed, and the save effect
setUserData(next) ==
    /\ transactions' = next.transactions
    /\ categories' = next.categories
    /\ currency' = next.currency
    /\ chatHistory' = next.chatHistory
    /\ theme' = next.theme
    /\ form' = IF categories' = categories THEN form
               ELSE InitialForm(editingTransaction, categories')
    /\ SaveEffect

\* handleUpdateCurrency(currency): the select "Moeda" of the settings page
handleUpdateCurrency(c) ==
    /\ setUserData([userData EXCEPT !.currency = c])
    /\ UNCHANGED <<editingTransaction, subItemParentId, isTransactionModalOpen,
                   deleteDialogVars, now, offPageVars, selectedMonth, assistVars, sessionVars>>

\* handleUpdateTheme(theme): the two theme cards of the settings page
handleUpdateTheme(th) ==
    /\ setUserData([userData EXCEPT !.theme = th])
    /\ UNCHANGED <<editingTransaction, subItemParentId, isTransactionModalOpen,
                   deleteDialogVars, now, offPageVars, selectedMonth, assistVars, sessionVars>>

\* a chat message appended over the default userData instead of prev
handleNewChatMessageOverDefault(prev, message) ==
    [DEFAULT_USER_DATA EXCEPT !.chatHistory = Append(prev.chatHistory, message)]

\* the updater of handleNewChatMessage(message)
handleNewChatMessage(prev, message) ==
    [prev EXCEPT !.chatHistory = Append(prev.chatHistory, message)]

\* handleSend up to its await: the user's message is appended, and the call
\* of getFinAssistResponse holds the prompt and the props history and
\* transactions of the render the handler was created in. user records the
\* account that was logged in, mounted whether the FinAssist that made the
\* call is still the one on the screen
handleSend(prompt, maxSends) ==
    /\ currentUser # NoUser
    /\ Len(handleSendCalls) < maxSends
    /\ ~(Trim(prompt) = "" \/ isLoading)
    /\ setUserData(handleNewChatMessage(userData, [sender |-> "user", text |-> prompt]))
    /\ isLoading' = TRUE
    /\ handleSendCalls' = Append(handleSendCalls,
            [pc |-> "await", prompt |-> prompt, history |-> chatHistory,
             transactions |-> transactions, ledgerChanged |-> FALSE,
             user |-> currentUser, mounted |-> TRUE])
    /\ UNCHANGED <<editingTransaction, subItemParentId, isTransactionModalOpen,
                   deleteDialogVars, now, offPageVars, selectedMonth, sessionVars>>

\* handleSend after its await: getFinAssistResponse has answered with
\* responseText. onNewMessage is App's handleNewChatMessage, whose updater
\* runs on the userData App holds now; setIsLoading(false) is the setter of
\* the FinAssist that made the call and does nothing once it has unmounted.
\* ledgerChanged records whether the ledger this step found differs from the
\* transactions the call was given
handleSendResume(i, responseText) ==
    /\ i \in 1..Len(handleSendCalls)
    /\ handleSendCalls[i].pc = "await"
    /\ effects = <<>>
    /\ setUserData(handleNewChatMessage(userData,
                        [sender |-> "finassist", text |-> responseText]))
    /\ isLoading' = IF handleSendCalls[i].mounted THEN FALSE ELSE isLoading
    /\ handleSendCalls' = [handleSendCalls EXCEPT
            ![i] = [@ EXCEPT !.pc = "done",
                             !.ledgerChanged =
                                 (handleSendCalls[i].transactions # transactions)]]
    /\ UNCHANGED <<editingTransaction, subItemParentId, isTransactionModalOpen,
                   deleteDialogVars, now, offPageVars, selectedMonth, sessionVars>>

\* handleSend when its await throws: getFinAssistResponse has rejected.
\* handleSend has no catch and no finally: the statements after the await,
\* onNewMessage(botMessage) and setIsLoading(false), do not run
handleSendReject(i) ==
    /\ i \in 1..Len(handleSendCalls)
    /\ handleSendCalls[i].pc = "await"
    /\ effects = <<>>
    /\ handleSendCalls' = [handleSendCalls EXCEPT ![i].pc = "rejected"]
    /\ UNCHANGED <<ledgerVars, txDialogVars, deleteDialogVars, now, offPageVars, restVars,
                   selectedMonth, isLoading, sessionVars, localStorage>>

(***************************************************************************)
(* The assistant specification: the ledger is edited while FinAssist is    *)
(* asked and answers.                                                      *)
(***************************************************************************)
AssistMaxRecords == 2
AssistMaxAmount == 2

NextAssist ==
    \/ OpenAddTransaction
    \/ setDescription("d")
    \/ setAmount(<<1>>)
    \/ handleSubmit(AssistMaxRecords, AssistMaxAmount)
    \/ handleDeleteTransactionRequest
    \/ confirmDelete(AssistMaxAmount)
    \/ \E c \in Currencies : handleUpdateCurrency(c)
    \/ \E th \in Themes : handleUpdateTheme(th)
    \/ \E prompt \in Prompts : handleSend(prompt, MaxSends)
    \/ \E i \in 1..MaxSends, responseText \in Responses : handleSendResume(i, responseText)

SpecAssist == Init /\ [][NextAssist]_vars

(***************************************************************************)
(* Login, logout and the effects on currentUser and userData.              *)
(***************************************************************************)
\* JSON.parse of a stored blob
JSONParse(blob) == blob[1]

\* mergedCategories of the load effect: the stored categories, then every
\* initial category whose name no stored category has
MergedCategories(cats) ==
    cats \o SelectSeq(INITIAL_CATEGORIES,
                      LAMBDA initialCat : \A userCat \in Range(cats) :
                                             userCat.name # initialCat.name)

\* the value the load effect hands to setUserData for a stored item
LoadedUserData(savedData) ==
    IF savedData # NoBlob
    THEN LET parsedData == JSONParse(savedData)
         IN  [transactions |-> parsedData.transactions,
              categories |-> MergedCategories(parsedData.categories),
              currency |-> parsedData.currency,
              chatHistory |-> parsedData.chatHistory,
              theme |-> IF parsedData.theme = "" THEN "galaxy" ELSE parsedData.theme]
    ELSE DEFAULT_USER_DATA

\* setCurrentUser(profile) when no account is logged in: LoginScreen unmounts
\* (its state is the initial one when it mounts again) and the pages mount.
\* handleLogin(username, password) of an existing, verified profile with its
\* password: setCurrentUser(profile). The commit mounts the pages (the form
\* of TransactionModal and isLoading of FinAssist start afresh) and leaves
\* the load effect and the save effect to run, in the order of declaration;
\* the save effect holds the userData of this render
setCurrentUser(username) ==
    /\ currentUser' = username
    /\ effects' = <<LoadEffect(username),
                    SaveEffectOf(username, userData, ledgerOwner.memory)>>
    /\ form' = InitialForm(editingTransaction, categories)
    /\ isLoading' = FALSE
    /\ loginScreen' = LoginScreenMounted
    /\ UNCHANGED <<ledgerVars, editingTransaction, subItemParentId,
                   isTransactionModalOpen, deleteDialogVars, now, workerVars, restVars,
                   selectedMonth, handleSendCalls, ledgerOwner, localStorage>>

\* setError(message) of LoginScreen.handleSubmit, after a handler has thrown
setError(message) ==
    /\ loginScreen' = [loginScreen EXCEPT !.error = message]
    /\ UNCHANGED <<ledgerVars, txDialogVars, deleteDialogVars, now, workerVars, restVars,
                   selectedMonth, assistVars, sessionVars, localStorage,
                   userProfiles, userPasswords, profilesDb>>

\* LoginScreen.handleSubmit in the view 'login': handleLogin(username, password)
handleLogin(username, password) ==
    /\ currentUser = NoUser
    /\ effects = <<>>
    /\ loginScreen.view = "login"
    /\ IF handleLoginError(userProfiles, userPasswords, username, password) # NoError
       THEN setError(handleLoginError(userProfiles, userPasswords, username, password))
       ELSE /\ setCurrentUser(username)
            /\ UNCHANGED <<userProfiles, userPasswords, profilesDb>>

\* the next effect runs. The load effect reads the item of its account and
\* calls setUserData: the render that follows leaves a save effect with the
\* loaded userData (it writes the value the first one wrote when userData
\* was DEFAULT_USER_DATA already), and the form effect runs on the new
\* categories. The save effect writes the userData of its closure
RunEffect ==
    /\ effects # <<>>
    /\ LET e == Head(effects)
       IN  IF e.kind = "load"
           THEN LET next == LoadedUserData(localStorage[e.user])
                IN  /\ transactions' = next.transactions
                    /\ categories' = next.categories
                    /\ currency' = next.currency
                    /\ chatHistory' = next.chatHistory
                    /\ theme' = next.theme
                    /\ form' = InitialForm(editingTransaction, next.categories)
                    /\ ledgerOwner' = [ledgerOwner EXCEPT !.memory = e.user]
                    /\ effects' = Append(Tail(effects),
                                         SaveEffectOf(e.user, next, e.user))
                    /\ UNCHANGED localStorage
           ELSE /\ localStorage' = Save(e)
                /\ ledgerOwner' = [ledgerOwner EXCEPT !.blobs[e.user] = e.owner]
                /\ effects' = Tail(effects)
                /\ UNCHANGED <<ledgerVars, restVars, form>>
    /\ UNCHANGED <<editingTransaction, subItemParentId, isTransactionModalOpen,
                   deleteDialogVars, now, offPageVars, selectedMonth, assistVars, currentUser>>

\* handleLogout: userData and the dialogs of App are left as they are; the
\* effects of the commit find currentUser null and do nothing. The pages and
\* FinAssist unmount: isLoading is the initial one when FinAssist mounts
\* again, and the calls it made go on without it
handleLogout ==
    /\ currentUser # NoUser
    /\ effects = <<>>
    /\ currentUser' = NoUser
    /\ selectedMonth' = "all"
    /\ isLoading' = FALSE
    /\ handleSendCalls' = [i \in 1..Len(handleSendCalls) |->
                              [handleSendCalls[i] EXCEPT !.mounted = FALSE]]
    /\ UNCHANGED <<ledgerVars, txDialogVars, deleteDialogVars, now, offPageVars, restVars,
                   effects, ledgerOwner, localStorage>>

(***************************************************************************)
(* The session specification: App from its first render, two accounts      *)
(* logging in and out and editing their ledgers. The pages are rendered    *)
(* when an account is logged in, and the effects of a commit run before    *)
(* the next event is handled.                                              *)
(***************************************************************************)
SessionMaxRecords == 1
SessionMaxAmount == 1

InitApp ==
    /\ transactions = DEFAULT_USER_DATA.transactions
    /\ categories = DEFAULT_USER_DATA.categories
    /\ currency = DEFAULT_USER_DATA.currency
    /\ chatHistory = DEFAULT_USER_DATA.chatHistory
    /\ theme = DEFAULT_USER_DATA.theme
    /\ editingTransaction = NoTransaction
    /\ subItemParentId = NoParent
    /\ isTransactionModalOpen = FALSE
    /\ form = InitialForm(NoTransaction, INITIAL_CATEGORIES)
    /\ itemToDelete = NoItem
    /\ isDeleteConfirmModalOpen = FALSE
    /\ now = 1
    /\ selectedMonth = "all"
    /\ isLoading = FALSE
    /\ handleSendCalls = <<>>
    /\ currentUser = NoUser
    /\ effects = <<>>
    /\ ledgerOwner = [memory |-> NoUser, blobs |-> [u \in Users |-> NoUser]]
    /\ localStorage = [u \in Users |-> NoBlob]
    /\ AccountsLoaded
    /\ WorkerActivated

PagesRendered == currentUser # NoUser /\ effects = <<>>

NextSession ==
    \/ \E username \in Users : handleLogin(username, userPasswords[username])
    \/ RunEffect
    \/ handleLogout
    \/ PagesRendered /\ OpenAddTransaction
    \/ PagesRendered /\ setDescription("d")
    \/ PagesRendered /\ setAmount(<<1>>)
    \/ PagesRendered /\ handleSubmit(SessionMaxRecords, SessionMaxAmount)
    \/ PagesRendered /\ \E c \in Currencies : handleUpdateCurrency(c)

SpecSession == InitApp /\ [][NextSession]_vars /\ WF_vars(RunEffect)

(***************************************************************************)
(* The service worker: install, activate and the fetch listener.           *)
(***************************************************************************)
MaxFetchEvents == 2
\* requests the pages make, and what the network answers
Methods == {"GET", "POST"}
RequestUrls == {"./", "./icon.png"}
\* fetch(request) rejects
NetworkFailed == [status |-> -1, body |-> 0]
NetworkResponses == [status : {200, 404}, body : {1, 2}]
\* respondWith(undefined): the request fails
RequestFails == [status |-> -2, body |-> 0]
\* the listener returned without respondWith: the browser handles the request
NotHandled == [status |-> -3, body |-> 0]
\* caches other versions of the application may have left behind
OldCache == [EmptyCache EXCEPT !["./"] = [status |-> 200, body |-> 2]]

\* the install listener: caches.open(CACHE_NAME), then cache.addAll(CORE_ASSETS),
\* which stores every asset or rejects and stores none; the install fails
\* when it rejects
install(allFetched) ==
    /\ worker.install = "pending"
    /\ caches' = [caches EXCEPT ![CACHE_NAME] =
                    LET cache == IF @ = NoCache THEN EmptyCache ELSE @
                    IN  IF allFetched
                        THEN [url \in Urls |-> IF url \in CORE_ASSETS
                                              THEN [status |-> 200, body |-> 1]
                                              ELSE cache[url]]
                        ELSE cache]
    /\ worker' = [worker EXCEPT !.install = IF allFetched THEN "done" ELSE "failed"]
    /\ UNCHANGED <<ledgerVars, txDialogVars, deleteDialogVars, now, restVars,
                   selectedMonth, assistVars, sessionVars, authVars, fetchEvents,
                   localStorage>>

\* the test of the activate listener, for every cache name: delete any cache
ShouldDeleteAny(cacheName) == TRUE

\* the test of the activate listener
ShouldDelete(cacheName) == cacheName # CACHE_NAME

\* the activate listener (skipWaiting: as soon as the install is done):
\* caches.keys(), and one caches.delete per name that passes the test
activateKeys ==
    /\ worker.install = "done"
    /\ worker.activate = "idle"
    /\ LET keys == {name \in CacheNames : caches[name] # NoCache}
       IN  worker' = [worker EXCEPT
               !.activate = "deleting",
               !.keys = keys,
               !.cacheNames = {name \in keys : ShouldDelete(name)}]
    /\ UNCHANGED <<ledgerVars, txDialogVars, deleteDialogVars, now, restVars,
                   selectedMonth, assistVars, sessionVars, authVars, caches,
                   fetchEvents, localStorage>>

\* one caches.delete(cacheName) of the Promise.all
activateDelete(cacheName) ==
    /\ worker.activate = "deleting"
    /\ cacheName \in worker.cacheNames
    /\ caches' = [caches EXCEPT ![cacheName] = NoCache]
    /\ worker' = [worker EXCEPT !.cacheNames = @ \ {cacheName}]
    /\ UNCHANGED <<ledgerVars, txDialogVars, deleteDialogVars, now, restVars,
                   selectedMonth, assistVars, sessionVars, authVars, fetchEvents,
                   localStorage>>

\* the Promise.all resolves: the work of the activate listener is complete
activateDone ==
    /\ worker.activate = "deleting"
    /\ worker.cacheNames = {}
    /\ worker' = [worker EXCEPT !.activate = "done"]
    /\ UNCHANGED <<ledgerVars, txDialogVars, deleteDialogVars, now, restVars,
                   selectedMonth, assistVars, sessionVars, authVars, caches,
                   fetchEvents, localStorage>>

\* what every step of the fetch listener leaves alone
FetchFrame ==
    UNCHANGED <<ledgerVars, txDialogVars, deleteDialogVars, now, restVars,
                selectedMonth, assistVars, sessionVars, authVars, worker,
                localStorage>>

\* a fetch event reaches the active worker: the listener returns at once for
\* a method other than GET, and calls respondWith otherwise
fetchEvent(method, url, maxFetchEvents) ==
    /\ worker.activate = "done"
    /\ Len(fetchEvents) < maxFetchEvents
    /\ fetchEvents' = Append(fetchEvents,
            [method |-> method, url |-> url,
             pc |-> IF method # "GET" THEN "done" ELSE "open",
             cachedResponse |-> NoResponse, network |-> NoResponse,
             response |-> IF method # "GET" THEN NotHandled ELSE NoResponse,
             put |-> "none"])
    /\ UNCHANGED caches
    /\ FetchFrame

\* caches.open(CACHE_NAME), which creates the cache when there is none
fetchOpen(i) ==
    /\ i \in 1..Len(fetchEvents)
    /\ fetchEvents[i].pc = "open"
    /\ caches' = [caches EXCEPT ![CACHE_NAME] = IF @ = NoCache THEN EmptyCache ELSE @]
    /\ fetchEvents' = [fetchEvents EXCEPT ![i].pc = "match"]
    /\ FetchFrame

\* cachedResponse = await cache.match(event.request), then fetch(event.request)
fetchMatch(i) ==
    /\ i \in 1..Len(fetchEvents)
    /\ fetchEvents[i].pc = "match"
    /\ fetchEvents' = [fetchEvents EXCEPT
            ![i].pc = "fetch",
            ![i].cachedResponse = caches[CACHE_NAME][fetchEvents[i].url]]
    /\ UNCHANGED caches
    /\ FetchFrame

\* the response of respondWith, the cached response first
RespondWithCached(network, cachedResponse) ==
    IF cachedResponse # NoResponse THEN cachedResponse
    ELSE IF network # NetworkFailed THEN network
    ELSE RequestFails

\* the value fetchPromise settles with, which respondWith answers with
\* (fetchPromise || cachedResponse is fetchPromise: a promise is truthy)
RespondWith(network, cachedResponse) ==
    IF network # NetworkFailed THEN network
    ELSE IF cachedResponse # NoResponse THEN cachedResponse
    ELSE RequestFails

\* networkResponse && networkResponse.status === 200
ShouldPut(networkResponse) == networkResponse.status = 200

\* fetch(event.request) settles with network: the then-branch starts
\* cache.put for a 200, without waiting for it, or the catch-branch runs
fetchSettles(i, network) ==
    /\ i \in 1..Len(fetchEvents)
    /\ fetchEvents[i].pc = "fetch"
    /\ fetchEvents' = [fetchEvents EXCEPT
            ![i].pc = "done",
            ![i].network = network,
            ![i].response = RespondWith(network, fetchEvents[i].cachedResponse),
            ![i].put = IF network # NetworkFailed /\ ShouldPut(network)
                       THEN "pending" ELSE "none"]
    /\ UNCHANGED caches
    /\ FetchFrame

\* cache.put(event.request, networkResponse.clone()) completes
cachePut(i) ==
    /\ i \in 1..Len(fetchEvents)
    /\ fetchEvents[i].put = "pending"
    /\ caches' = [caches EXCEPT ![CACHE_NAME][fetchEvents[i].url] = fetchEvents[i].network]
    /\ fetchEvents' = [fetchEvents EXCEPT ![i].put = "done"]
    /\ FetchFrame

(***************************************************************************)
(* The worker specification: a new worker installs over the caches it      *)
(* finds, activates and answers fetch events. Promise continuations and    *)
(* the network settle in the end.                                          *)
(***************************************************************************)
InitWorker ==
    /\ transactions = DEFAULT_USER_DATA.transactions
    /\ categories = DEFAULT_USER_DATA.categories
    /\ currency = DEFAULT_USER_DATA.currency
    /\ chatHistory = DEFAULT_USER_DATA.chatHistory
    /\ theme = DEFAULT_USER_DATA.theme
    /\ editingTransaction = NoTransaction
    /\ subItemParentId = NoParent
    /\ isTransactionModalOpen = FALSE
    /\ form = InitialForm(NoTransaction, INITIAL_CATEGORIES)
    /\ itemToDelete = NoItem
    /\ isDeleteConfirmModalOpen = FALSE
    /\ now = 1
    /\ selectedMonth = "all"
    /\ isLoading = FALSE
    /\ handleSendCalls = <<>>
    /\ currentUser = NoUser
    /\ effects = <<>>
    /\ ledgerOwner = [memory |-> NoUser, blobs |-> [u \in Users |-> NoUser]]
    /\ localStorage = [u \in Users |-> NoBlob]
    /\ AccountsLoaded
    /\ caches \in [CacheNames -> {NoCache, EmptyCache, OldCache}]
    /\ worker = [install |-> "pending", activate |-> "idle", keys |-> {}, cacheNames |-> {}]
    /\ fetchEvents = <<>>

WorkerStep ==
    \/ \E allFetched \in BOOLEAN : install(allFetched)
    \/ activateKeys
    \/ \E cacheName \in CacheNames : activateDelete(cacheName)
    \/ activateDone
    \/ \E i \in 1..MaxFetchEvents : fetchOpen(i)
    \/ \E i \in 1..MaxFetchEvents : fetchMatch(i)
    \/ \E i \in 1..MaxFetchEvents, network \in NetworkResponses \cup {NetworkFailed} :
           fetchSettles(i, network)
    \/ \E i \in 1..MaxFetchEvents : cachePut(i)

NextWorker ==
    \/ WorkerStep
    \/ \E method \in Methods, url \in RequestUrls : fetchEvent(method, url, MaxFetchEvents)

SpecWorker == InitWorker /\ [][NextWorker]_vars /\ WF_vars(WorkerStep)

(***************************************************************************)
(* The chat specification: two accounts log in and out while FinAssist is  *)
(* asked, and the calls of getFinAssistResponse resolve or reject, each in *)
(* the end.                                                                *)
(***************************************************************************)
getFinAssistResponseSettles ==
    \E i \in 1..MaxSends :
        \/ \E responseText \in Responses : handleSendResume(i, responseText)
        \/ handleSendReject(i)

NextChat ==
    \/ \E username \in Users : handleLogin(username, userPasswords[username])
    \/ RunEffect
    \/ handleLogout
    \/ PagesRendered /\ \E prompt \in Prompts : handleSend(prompt, MaxSends)
    \/ getFinAssistResponseSettles

SpecChat ==
    InitApp /\ [][NextChat]_vars /\ WF_vars(RunEffect) /\ WF_vars(getFinAssistResponseSettles)

(***************************************************************************)
(* Accounts: LoginScreen and the account handlers of App.                  *)
(***************************************************************************)
\* what the model types into the forms of LoginScreen and the profile form
Passwords == {"admin", "abc", "secret1", "secret2"}
Emails == {"ana@x.io", "ANA@X.IO", "admin@controlfin.app"}
DisplayNames == {"Ana B."}
\* the results of generateCode(); Math.random() may give the same code again
Codes == {"100000", "100001"}

\* the buttons of renderFormContent that call handleViewChange
ViewChanges ==
    {<<"login", "register">>, <<"login", "forgotPassword">>, <<"register", "login">>,
     <<"verifyEmail", "login">>, <<"forgotPassword", "login">>}

\* what a handler of LoginScreen leaves alone when it logs nobody in
AccountFrame ==
    UNCHANGED <<ledgerVars, txDialogVars, deleteDialogVars, now, workerVars, restVars,
                selectedMonth, assistVars, currentUser, effects>>

\* handleViewChange(newView): clearFormState() and setView(newView)
handleViewChange(newView) ==
    /\ currentUser = NoUser
    /\ effects = <<>>
    /\ <<loginScreen.view, newView>> \in ViewChanges
    /\ loginScreen' = [loginScreen EXCEPT !.view = newView, !.error = NoError]
    /\ AccountFrame
    /\ UNCHANGED <<userProfiles, userPasswords, profilesDb, ledgerOwner, localStorage>>

\* LoginScreen.handleSubmit in the view 'register': the two tests of the
\* password, handleRegister(username, password, email), setUserToVerify and
\* setView('verifyEmail')
handleRegister(username, password, confirmPassword, email, verificationCode) ==
    /\ currentUser = NoUser
    /\ effects = <<>>
    /\ loginScreen.view = "register"
    /\ IF password # confirmPassword THEN setError(ErrorMessages.PasswordsDiffer)
       ELSE IF Length(password) < 6 THEN setError(ErrorMessages.PasswordTooShort)
       ELSE IF handleRegisterError(userProfiles, username, email) # NoError
       THEN setError(handleRegisterError(userProfiles, username, email))
       ELSE /\ userProfiles' = [userProfiles EXCEPT ![username] =
                    [username |-> username, displayName |-> username, email |-> email,
                     isVerified |-> FALSE, verificationCode |-> verificationCode]]
            /\ userPasswords' = [userPasswords EXCEPT ![username] = password]
            /\ profilesDb' = [profiles |-> userProfiles', passwords |-> userPasswords']
            /\ localStorage' = [localStorage EXCEPT
                                   ![username] = JSONStringify(DEFAULT_USER_DATA)]
            /\ ledgerOwner' = [ledgerOwner EXCEPT !.blobs[username] = username]
            /\ loginScreen' = [loginScreen EXCEPT !.userToVerify = username,
                                                  !.view = "verifyEmail",
                                                  !.error = NoError]
            /\ AccountFrame

\* LoginScreen.handleSubmit in the view 'verifyEmail':
\* handleVerifyEmail(userToVerify, code)
handleVerifyEmail(code) ==
    /\ currentUser = NoUser
    /\ effects = <<>>
    /\ loginScreen.view = "verifyEmail"
    /\ IF loginScreen.userToVerify = NoUser THEN setError(ErrorMessages.InvalidVerifySession)
       ELSE IF handleVerifyEmailError(userProfiles, loginScreen.userToVerify, code) # NoError
       THEN setError(handleVerifyEmailError(userProfiles, loginScreen.userToVerify, code))
       ELSE /\ userProfiles' = [userProfiles EXCEPT ![loginScreen.userToVerify] =
                    [@ EXCEPT !.isVerified = TRUE, !.verificationCode = NoCode]]
            /\ profilesDb' = [profilesDb EXCEPT !.profiles = userProfiles']
            /\ setCurrentUser(loginScreen.userToVerify)
            /\ UNCHANGED userPasswords

\* LoginScreen.handleSubmit in the view 'forgotPassword':
\* handleForgotPassword(email), setEmailToReset and setView('resetPassword')
handleForgotPassword(email, resetCode) ==
    /\ currentUser = NoUser
    /\ effects = <<>>
    /\ loginScreen.view = "forgotPassword"
    /\ IF FindByEmail(userProfiles, email) = NoUser THEN setError(ErrorMessages.EmailNotFound)
       ELSE /\ userProfiles' = [userProfiles EXCEPT
                    ![FindByEmail(userProfiles, email)].verificationCode = resetCode]
            /\ profilesDb' = [profilesDb EXCEPT !.profiles = userProfiles']
            /\ loginScreen' = [loginScreen EXCEPT !.emailToReset = email,
                                                  !.view = "resetPassword",
                                                  !.error = NoError]
            /\ AccountFrame
            /\ UNCHANGED <<userPasswords, ledgerOwner, localStorage>>

\* LoginScreen.handleSubmit in the view 'resetPassword': the tests of the
\* session and of the password, handleResetPassword(emailToReset, code,
\* password) and handleViewChange('login')
handleResetPassword(code, password, confirmPassword) ==
    /\ currentUser = NoUser
    /\ effects = <<>>
    /\ loginScreen.view = "resetPassword"
    /\ IF loginScreen.emailToReset = NoEmail THEN setError(ErrorMessages.InvalidResetSession)
       ELSE IF password # confirmPassword THEN setError(ErrorMessages.PasswordsDiffer)
       ELSE IF Length(password) < 6 THEN setError(ErrorMessages.PasswordTooShort)
       ELSE IF handleResetPasswordError(userProfiles, loginScreen.emailToReset, code) # NoError
       THEN setError(handleResetPasswordError(userProfiles, loginScreen.emailToReset, code))
       ELSE LET username == FindByEmail(userProfiles, loginScreen.emailToReset)
            IN  /\ userProfiles' = [userProfiles EXCEPT
                                       ![username] = WithCodeCleared(@)]
                /\ userPasswords' = [userPasswords EXCEPT ![username] = password]
                /\ profilesDb' = [profiles |-> userProfiles', passwords |-> userPasswords']
                /\ loginScreen' = [loginScreen EXCEPT !.view = "login", !.error = NoError]
                /\ AccountFrame
                /\ UNCHANGED <<ledgerOwner, localStorage>>

\* handleUpdateProfile({ displayName }) of the settings page:
\* setCurrentUser(updatedProfile) is a new object for the same account, so
\* the commit leaves the load effect and the save effect to run again
handleUpdateProfile(displayName) ==
    /\ currentUser # NoUser
    /\ effects = <<>>
    /\ userProfiles' = [userProfiles EXCEPT ![currentUser].displayName = displayName]
    /\ profilesDb' = [profilesDb EXCEPT !.profiles = userProfiles']
    /\ effects' = <<LoadEffect(currentUser),
                    SaveEffectOf(currentUser, userData, ledgerOwner.memory)>>
    /\ UNCHANGED <<ledgerVars, txDialogVars, deleteDialogVars, now, workerVars, restVars,
                   selectedMonth, assistVars, currentUser, ledgerOwner, localStorage,
                   userPasswords, loginScreen>>

\* handleDeleteUser(usernameToDelete) of the admin page, which 'admin' alone
\* is shown and which lists every profile but 'admin'
handleDeleteUser(usernameToDelete) ==
    /\ currentUser = "admin"
    /\ effects = <<>>
    /\ usernameToDelete # "admin"
    /\ userProfiles[usernameToDelete] # NoProfile
    /\ userProfiles' = [userProfiles EXCEPT ![usernameToDelete] = NoProfile]
    /\ userPasswords' = [userPasswords EXCEPT ![usernameToDelete] = NoPassword]
    /\ profilesDb' = [profiles |-> userProfiles', passwords |-> userPasswords']
    /\ localStorage' = [localStorage EXCEPT ![usernameToDelete] = NoBlob]
    /\ ledgerOwner' = [ledgerOwner EXCEPT !.blobs[usernameToDelete] = NoUser]
    /\ UNCHANGED <<ledgerVars, txDialogVars, deleteDialogVars, now, workerVars, restVars,
                   selectedMonth, assistVars, currentUser, effects, loginScreen>>

(***************************************************************************)
(* The accounts specification: App on the first visit, when 'admin' is the *)
(* only profile; an account registers, verifies, forgets and resets its    *)
(* password, logs in and out and changes its profile, and 'admin' deletes   *)
(* it.                                                                     *)
(***************************************************************************)
InitAuth ==
    /\ transactions = DEFAULT_USER_DATA.transactions
    /\ categories = DEFAULT_USER_DATA.categories
    /\ currency = DEFAULT_USER_DATA.currency
    /\ chatHistory = DEFAULT_USER_DATA.chatHistory
    /\ theme = DEFAULT_USER_DATA.theme
    /\ editingTransaction = NoTransaction
    /\ subItemParentId = NoParent
    /\ isTransactionModalOpen = FALSE
    /\ form = InitialForm(NoTransaction, INITIAL_CATEGORIES)
    /\ itemToDelete = NoItem
    /\ isDeleteConfirmModalOpen = FALSE
    /\ now = 1
    /\ selectedMonth = "all"
    /\ isLoading = FALSE
    /\ handleSendCalls = <<>>
    /\ currentUser = NoUser
    /\ effects = <<>>
    /\ ledgerOwner = [memory |-> NoUser, blobs |-> [u \in Users |-> NoUser]]
    /\ localStorage = [u \in Users |-> NoBlob]
    /\ AdminLoaded
    /\ WorkerActivated

NextAuth ==
    \/ \E newView \in {"login", "register", "forgotPassword"} : handleViewChange(newView)
    \/ \E username \in Users, password \in Passwords : handleLogin(username, password)
    \/ \E username \in Users, password \in Passwords, confirmPassword \in Passwords,
          email \in Emails, verificationCode \in Codes :
           handleRegister(username, password, confirmPassword, email, verificationCode)
    \/ \E code \in Codes : handleVerifyEmail(code)
    \/ \E email \in Emails, resetCode \in Codes : handleForgotPassword(email, resetCode)
    \/ \E code \in Codes, password \in Passwords, confirmPassword \in Passwords :
           handleResetPassword(code, password, confirmPassword)
    \/ RunEffect
    \/ handleLogout
    \/ \E displayName \in DisplayNames : handleUpdateProfile(displayName)
    \/ \E usernameToDelete \in Users : handleDeleteUser(usernameToDelete)

SpecAuth == InitAuth /\ [][NextAuth]_vars /\ WF_vars(RunEffect)

(***************************************************************************)
(* The round-trip specification: an account deletes a category and creates *)
(* a record, and its userData is saved and loaded again by a logout and a  *)
(* login or by a change of its profile.                                    *)
(***************************************************************************)
NextRoundTrip ==
    \/ \E username \in Users : handleLogin(username, userPasswords[username])
    \/ RunEffect
    \/ handleLogout
    \/ PagesRendered /\ OpenAddTransaction
    \/ PagesRendered /\ setDescription("d")
    \/ PagesRendered /\ setAmount(<<1>>)
    \/ PagesRendered /\ handleSubmit(SessionMaxRecords, SessionMaxAmount)
    \/ PagesRendered /\ \E c \in SettingsRows(categories) : handleDeleteCategoryRequest(c.id)
    \/ PagesRendered /\ confirmDelete(SessionMaxAmount)
    \/ \E displayName \in DisplayNames : handleUpdateProfile(displayName)

SpecRoundTrip == InitApp /\ [][NextRoundTrip]_vars /\ WF_vars(RunEffect)

(***************************************************************************)
(* Claims.                                                                 *)
(***************************************************************************)
\* C1: parent-sum invariant: in every state reached by Create, Update and
\* Delete from the empty ledger, every record that has at least one sub-item
\* has amount equal to the sum of the amounts of the records whose parentId
\* is its id.
C1_ParentSum ==
    \A p \in Range(transactions) :
        ChildrenOf(transactions, p.id) # <<>> =>
            p.amount = SumAmounts(ChildrenOf(transactions, p.id))

\* C2: no two records of the flat set share an id.
C2_UniqueIds ==
    \A i, j \in 1..Len(transactions) :
        transactions[i].id = transactions[j].id => i = j

\* a step of confirmDelete that runs confirmDeleteTransaction
ConfirmsTransactionDelete ==
    /\ isDeleteConfirmModalOpen
    /\ itemToDelete.type = "transaction"
    /\ ~isDeleteConfirmModalOpen'
    /\ itemToDelete' = NoItem

\* the record confirmDeleteTransaction finds for the pending id
PendingTarget ==
    transactions[CHOOSE i \in 1..Len(transactions) :
                     /\ transactions[i].id = itemToDelete.id.n
                     /\ \A j \in 1..(i - 1) : transactions[j].id # itemToDelete.id.n]

\* C3: cascading delete: Delete of a top-level record with N sub-items
\* removes exactly that record and its N sub-items and changes nothing else;
\* Delete of a sub-item removes exactly one record and sets the parent's
\* amount to the sum of the parent's remaining sub-items.
C3_CascadingDelete ==
    [][(ConfirmsTransactionDelete /\ itemToDelete.id.n \in Ids(transactions)) =>
        IF PendingTarget.parentId = NoParent
        THEN /\ Len(transactions') =
                    Len(transactions) - (1 + Len(ChildrenOf(transactions, itemToDelete.id.n)))
             /\ transactions' = SelectSeq(transactions,
                    LAMBDA t : t.id # itemToDelete.id.n /\ t.parentId # itemToDelete.id.n)
        ELSE /\ Len(transactions') = Len(transactions) - 1
             /\ \A p \in Range(transactions') :
                    p.id = PendingTarget.parentId =>
                        p.amount = SumAmounts(ChildrenOf(transactions', p.id))
      ]_vars

\* C4: no nested sub-items: no record that has a parentId is itself the
\* parentId of another record.
C4_NoNestedSubItems ==
    \A s, t \in Range(transactions) : s.parentId # NoParent => t.parentId # s.id

\* a step of handleSubmit that reaches handleSaveTransaction as an Update
UpdatesTransaction ==
    /\ isTransactionModalOpen
    /\ editingTransaction # NoTransaction
    /\ ~isTransactionModalOpen'

\* C6: a parent's amount is not directly editable: after an Update of a
\* record that has at least one sub-item, that record's amount is the sum of
\* its sub-items.
C6_ParentAmountNotEditable ==
    [][(UpdatesTransaction /\ ChildrenOf(transactions, editingTransaction.id) # <<>>) =>
        \A p \in Range(transactions') :
            (p.id = editingTransaction.id /\ ChildrenOf(transactions', p.id) # <<>>) =>
                p.amount = SumAmounts(ChildrenOf(transactions', p.id))
      ]_vars

\* C10: NotFound is a no-op: an Update or a Delete that names an id absent
\* from the current record set leaves the record set unchanged.
C10_NotFoundNoOp ==
    [][((UpdatesTransaction /\ editingTransaction.id \notin Ids(transactions))
        \/ (ConfirmsTransactionDelete /\ itemToDelete.id.n \notin Ids(transactions)))
       => transactions' = transactions]_vars

\* a step that appends a record: handleSaveTransaction without
\* editingTransaction
CreatesTransaction ==
    /\ isTransactionModalOpen
    /\ editingTransaction = NoTransaction
    /\ Len(transactions') = Len(transactions) + 1

\* the ledger of the scenario before its second sub-item: an income of 1000,
\* an expense parent and one sub-item of 30 under it
ScenarioBeforeSecondSubItem(txs, i, p, a) ==
    /\ Len(txs) = 3 /\ {i, p, a} = 1..3
    /\ txs[i].type = INCOME /\ txs[i].amount = 1000 /\ txs[i].parentId = NoParent
    /\ txs[p].type = EXPENSE /\ txs[p].parentId = NoParent
    /\ txs[a].type = EXPENSE /\ txs[a].amount = 30 /\ txs[a].parentId = txs[p].id

\* the ledger of the scenario: an income of 1000, an expense parent of 75
\* and its sub-items of 30 and 45
ScenarioLedger(txs, i, p, a, b) ==
    /\ Len(txs) = 4 /\ {i, p, a, b} = 1..4
    /\ txs[i].type = INCOME /\ txs[i].amount = 1000 /\ txs[i].parentId = NoParent
    /\ txs[p].type = EXPENSE /\ txs[p].amount = 75 /\ txs[p].parentId = NoParent
    /\ txs[a].type = EXPENSE /\ txs[a].amount = 30 /\ txs[a].parentId = txs[p].id
    /\ txs[b].type = EXPENSE /\ txs[b].amount = 45 /\ txs[b].parentId = txs[p].id

\* C5: the concrete scenario: with a top-level income of 1000 and an expense
\* parent, creating the sub-items of 30 and 45 under the parent makes the
\* parent's amount 75 and the totals 1000, 75 and 925; deleting the sub-item
\* of 30 then makes the parent's amount 45 and totalExpense 45.
C5_Scenario ==
    [][/\ \A i, p, a \in 1..3 :
            (/\ CreatesTransaction
             /\ ScenarioBeforeSecondSubItem(transactions, i, p, a)
             /\ subItemParentId = transactions[p].id
             /\ form.amount = <<45>>)
            => /\ transactions'[p].amount = 75
               /\ totalIncome(transactions') = 1000
               /\ totalExpense(transactions') = 75
               /\ balance(transactions') = 925
       /\ \A i, p, a, b \in 1..4 :
            (/\ ConfirmsTransactionDelete
             /\ ScenarioLedger(transactions, i, p, a, b)
             /\ itemToDelete.id.n = transactions[a].id)
            => /\ \E q \in 1..Len(transactions') :
                      /\ transactions'[q].id = transactions[p].id
                      /\ transactions'[q].parentId = NoParent
                      /\ transactions'[q].amount = 45
               /\ totalExpense(transactions') = 45
      ]_vars

\* the categories a step removes from the active set
RemovedCategories ==
    {c \in Range(categories) : \A d \in Range(categories') : d.id # c.id}

\* C7: category deletion guard: a category is removed from the active set
\* only if, at the moment of removal, no record of the flat set has category
\* equal to its name, also when records change between the request and its
\* confirmation.
C7_CategoryDeletionGuard ==
    [][\A c \in RemovedCategories :
          \A t \in Range(transactions) : t.category # c.name]_vars

\* C8: category-name uniqueness: no two categories of the active set have
\* names that are equal ignoring case.
C8_UniqueCategoryNames ==
    \A i, j \in 1..Len(categories) :
        ToLowerCase(categories[i].name) = ToLowerCase(categories[j].name) => i = j

\* what the claim calls invalid: an amount that is negative or not a number,
\* an empty description, a missing date or category
InvalidForm(f) ==
    \/ f.amount = NoAmount
    \/ f.amount # NoAmount /\ f.amount[1] < 0
    \/ f.description = ""
    \/ f.date = NoDate
    \/ f.category = ""

\* C9: validation is all-or-nothing: "Salvar" on a form whose amount is
\* negative or not a number, whose description is empty, or whose date or
\* category is missing leaves the record set unchanged.
C9_ValidationAllOrNothing ==
    [][(isTransactionModalOpen /\ ~isTransactionModalOpen' /\ InvalidForm(form))
        => transactions' = transactions]_vars

\* the records of a list that have no parentId
TopLevel(list) == SelectSeq(list, LAMBDA t : t.parentId = NoParent)

\* C11: no double counting: over the list the Dashboard totals, totalIncome
\* plus totalExpense is the sum of the amounts of the records without
\* parentId, netBalance is totalIncome - totalExpense, and the three totals
\* are those of the list with every sub-item taken out.
C11_NoDoubleCounting ==
    LET list == filteredTransactions(transactions, selectedMonth)
    IN  /\ totalIncome(list) + totalExpense(list) = SumAmounts(TopLevel(list))
        /\ balance(list) = totalIncome(list) - totalExpense(list)
        /\ totalIncome(list) = totalIncome(TopLevel(list))
        /\ totalExpense(list) = totalExpense(TopLevel(list))
        /\ totalIncome(list) =
               SumAmounts(SelectSeq(TopLevel(list), LAMBDA t : t.type = INCOME))

\* C11 witness: a month is selected and its list holds an expense parent, a
\* sub-item of it and an income
C11_Witness ==
    LET list == filteredTransactions(transactions, selectedMonth)
    IN  /\ selectedMonth # "all"
        /\ \E p, s, i \in Range(list) :
              /\ p.parentId = NoParent /\ p.type = EXPENSE
              /\ s.parentId = p.id /\ s.id # p.id
              /\ i.parentId = NoParent /\ i.type = INCOME
        /\ totalExpense(list) > 0 /\ totalIncome(list) > 0

\* selectedMonth is one of availableMonths
MonthIsAvailable ==
    \E i \in 1..Len(availableMonths(transactions)) :
        availableMonths(transactions)[i] = selectedMonth

\* C12: month filter round-trip: for the month M selected among
\* availableMonths, the filter returns a non-empty list of records whose
\* dates start with M, both over the flat list (Dashboard, Reports) and over
\* the tree roots (Transactions page); "all" returns the list unchanged.
C12_MonthFilterRoundTrip ==
    LET flat == transactions
        roots == transactionsWithSubItems(transactions)
    IN  /\ selectedMonth = "all" =>
              /\ filteredTransactions(flat, selectedMonth) = flat
              /\ filteredTransactions(roots, selectedMonth) = roots
        /\ MonthIsAvailable =>
              /\ filteredTransactions(flat, selectedMonth) # <<>>
              /\ \A t \in Range(filteredTransactions(flat, selectedMonth)) :
                     StartsWith(t.date, selectedMonth)
              /\ filteredTransactions(roots, selectedMonth) # <<>>
              /\ \A t \in Range(filteredTransactions(roots, selectedMonth)) :
                     StartsWith(t.date, selectedMonth)

\* the flat record a node of the tree shows
RecordOf(node) ==
    [id |-> node.id, description |-> node.description, amount |-> node.amount,
     date |-> node.date, type |-> node.type, category |-> node.category,
     parentId |-> node.parentId]

\* a sequence of ids whose nodes are in descending order of date
DescendingByDate(txs, ids) ==
    \A i, j \in 1..Len(ids) :
        i < j => getTime(TransactionMapEntry(txs, ids[i]).date)
                    >= getTime(TransactionMapEntry(txs, ids[j]).date)

\* C13: Tree Builder partition and order: a record is a root exactly when
\* it has no parentId or its parentId is the id of no record of the list;
\* every other record is in the subItems of the record its parentId names;
\* the roots are in descending order of date, and so are the subItems of
\* each root.
C13_TreePartitionAndOrder ==
    LET roots == transactionsWithSubItems(transactions)
    IN  /\ \A k \in 1..Len(transactions) :
              LET t == transactions[k]
                  isRoot == t.parentId = NoParent \/ t.parentId \notin Ids(transactions)
              IN  /\ isRoot <=> \E i \in 1..Len(roots) : RecordOf(roots[i]) = t
                  /\ ~isRoot =>
                        /\ TransactionMapEntry(transactions, t.id) = t
                        /\ \E j \in 1..Len(SubItemsOf(transactions, t.parentId)) :
                               SubItemsOf(transactions, t.parentId)[j] = t.id
        /\ Len(roots) = Cardinality({k \in 1..Len(transactions) :
                              IsRootRecord(transactions, transactions[k])})
        /\ \A i, j \in 1..Len(roots) :
              i < j => getTime(roots[i].date) >= getTime(roots[j].date)
        /\ \A i \in 1..Len(roots) : DescendingByDate(transactions, roots[i].subItems)

\* C14: the Tree Builder never produces more than two levels: no node in
\* the subItems of a root has sub-items of its own.
C14_TwoLevels ==
    LET roots == transactionsWithSubItems(transactions)
    IN  \A i \in 1..Len(roots) :
            \A j \in 1..Len(roots[i].subItems) :
                SubItemsOf(transactions, roots[i].subItems[j]) = <<>>

\* C15: Update frame: an Update of record r keeps r's id and r's parentId,
\* leaves the number of records unchanged, and leaves every other record
\* unchanged except that the amount of r's parent is re-derived.
C15_UpdateFrame ==
    [][(handleSubmit(MaxRecords, MaxAmount) /\ UpdatesTransaction
            /\ editingTransaction.id \in Ids(transactions)) =>
        /\ Len(transactions') = Len(transactions)
        /\ \A k \in 1..Len(transactions) :
              LET r == transactions[k]
              IN  IF r.id = editingTransaction.id
                  THEN /\ transactions'[k].id = r.id
                       /\ transactions'[k].parentId = r.parentId
                  ELSE IF r.id = editingTransaction.parentId /\ r.id # NoParent
                  THEN transactions'[k] =
                          [r EXCEPT !.amount = SumAmounts(ChildrenOf(transactions', r.id))]
                  ELSE transactions'[k] = r
      ]_vars

\* C16: deleting the last remaining sub-item of a parent sets the parent's
\* amount to 0 in the same operation.
C16_LastSubItemDelete ==
    [][ConfirmsTransactionDelete =>
        \A s \in Range(transactions) :
            (/\ s.id = itemToDelete.id.n
             /\ s.parentId # NoParent
             /\ ChildrenOf(transactions, s.parentId) = <<s>>) =>
                \A p \in Range(transactions') :
                    p.id = s.parentId => p.amount = 0
      ]_vars

\* C17: no dangling sub-items: every record with a parentId names the id of
\* a record that is in the record set.
C17_NoDanglingSubItems ==
    \A t \in Range(transactions) :
        t.parentId # NoParent => t.parentId \in Ids(transactions)

\* a step that appends a message to the chat
AppendsChatMessage ==
    /\ Len(chatHistory') = Len(chatHistory) + 1
    /\ SubSeq(chatHistory', 1, Len(chatHistory)) = chatHistory

\* C18: the assistant never mutates the ledger: a step that appends a chat
\* message (the user's prompt or the assistant's reply) leaves transactions,
\* categories, currency and theme unchanged, also when the ledger was changed
\* while the reply was pending.
C18_AssistantFrame ==
    [][AppendsChatMessage => UNCHANGED <<transactions, categories, currency, theme>>]_vars

\* a reply has been appended after the ledger was changed while it was pending
C18_Witness ==
    /\ chatHistory # <<>>
    /\ chatHistory[Len(chatHistory)].sender = "finassist"
    /\ \E i \in 1..Len(handleSendCalls) :
           /\ handleSendCalls[i].pc = "done"
           /\ handleSendCalls[i].ledgerChanged
           /\ handleSendCalls[i].transactions # transactions

\* the values userData takes in the session specification
SessionLedgers ==
    LET f == [InitialForm(NoTransaction, INITIAL_CATEGORIES) EXCEPT
                  !.description = "d", !.amount = <<1>>]
        created == SavedTransactions(<<>>, NoTransaction,
                                     SubmittedData(f, NoTransaction, NoParent), 1)[1]
    IN  {[DEFAULT_USER_DATA EXCEPT !.transactions = [i \in 1..n |-> created],
                                   !.currency = c] :
            n \in 0..SessionMaxRecords, c \in Currencies}

\* C19: persistence follows every mutation: whenever account u is logged in
\* and userData has the value d, the blob under u's key is eventually
\* overwritten with the whole of d (d ranges over every value userData takes).
C19_PersistenceFollows ==
    /\ [](userData \in SessionLedgers)
    /\ \A u \in Users : \A d \in SessionLedgers :
           (currentUser = u /\ userData = d) ~> (localStorage[u] = JSONStringify(d))

\* both accounts have edited and their blobs are their own ledgers
C19_Witness ==
    /\ currentUser = "ana"
    /\ effects = <<>>
    /\ transactions # <<>>
    /\ currency = "USD"
    /\ localStorage["ana"] = JSONStringify(userData)
    /\ localStorage["admin"] \notin {NoBlob, localStorage["ana"]}

\* C20: account scoping of storage: in every state, the steps between a
\* login and the end of its load included, the blob under account u's key
\* was written from the ledger of u (or from the initial userData of App),
\* never from the ledger that was loaded or edited for another account.
C20_AccountScoping ==
    \A u \in Users : ledgerOwner.blobs[u] \in {NoUser, u}

\* C21: category references stay resolvable: every record's category equals
\* the name of some category of the active set.
C21_CategoryReferencesResolvable ==
    \A t \in Range(transactions) :
        \E c \in Range(categories) : c.name = t.category

\* the step is cachePut of event i
PutOf(i) ==
    /\ i \in 1..Len(fetchEvents)
    /\ fetchEvents[i].put = "pending"
    /\ fetchEvents'[i].put = "done"

\* C22: service worker network-first strategy: a GET request whose network
\* fetch succeeds is answered with the network response, also when a cached
\* response exists, and that response is written to the cache exactly when
\* its status is 200 (nothing else writes an entry, and the write of a 200
\* is made in the end); when the fetch fails the cached response is the
\* answer if there is one and the request fails otherwise. A request that is
\* not a GET is not answered by the worker and writes no entry.
C22_NetworkFirst ==
    /\ [](\A i \in 1..Len(fetchEvents) :
            LET e == fetchEvents[i]
            IN  /\ e.method # "GET" => e.response = NotHandled /\ e.put = "none"
                /\ (e.method = "GET" /\ e.pc = "done") =>
                      /\ e.network # NetworkFailed => e.response = e.network
                      /\ (e.network = NetworkFailed /\ e.cachedResponse # NoResponse)
                            => e.response = e.cachedResponse
                      /\ (e.network = NetworkFailed /\ e.cachedResponse = NoResponse)
                            => e.response = RequestFails
                      /\ e.put # "none" <=> e.network.status = 200)
    /\ [][\A url \in Urls :
            (worker.activate = "done" /\ caches'[CACHE_NAME][url] # caches[CACHE_NAME][url]) =>
                \E i \in 1..Len(fetchEvents) :
                    /\ PutOf(i)
                    /\ fetchEvents[i].method = "GET" /\ fetchEvents[i].url = url
                    /\ fetchEvents[i].network.status = 200
                    /\ caches'[CACHE_NAME][url] = fetchEvents[i].network]_vars
    /\ \A i \in 1..MaxFetchEvents :
          (i <= Len(fetchEvents) /\ fetchEvents[i].put = "pending")
              ~> (i <= Len(fetchEvents) /\ fetchEvents[i].put = "done")
    /\ \A i \in 1..MaxFetchEvents :
          (i <= Len(fetchEvents))
              ~> (i <= Len(fetchEvents) /\ fetchEvents[i].pc = "done")

\* a GET was answered from the network although a different response was
\* cached, and the network response has replaced the cached one
C22_Witness ==
    \E i \in 1..Len(fetchEvents) :
        LET e == fetchEvents[i]
        IN  /\ e.method = "GET" /\ e.pc = "done" /\ e.put = "done"
            /\ e.cachedResponse # NoResponse
            /\ e.network # e.cachedResponse
            /\ e.response = e.network
            /\ caches[CACHE_NAME][e.url] = e.network

\* a step of the activate listener
ActivateStep == worker'.activate # worker.activate \/ worker'.cacheNames # worker.cacheNames

\* C23: service worker activation purges old caches: once the work of the
\* activate listener is complete every cache whose name differs from
\* CACHE_NAME has been deleted, and no step of the listener touches the cache
\* named CACHE_NAME.
C23_ActivationPurges ==
    /\ [](worker.activate = "done" =>
            \A name \in CacheNames : name # CACHE_NAME => caches[name] = NoCache)
    /\ [][ActivateStep => caches'[CACHE_NAME] = caches[CACHE_NAME]]_vars

\* the activation is complete, it found old caches, and the worker's cache
\* still holds the core assets
C23_Witness ==
    /\ worker.activate = "done"
    /\ worker.keys = CacheNames
    /\ fetchEvents = <<>>
    /\ \A name \in CacheNames : name # CACHE_NAME => caches[name] = NoCache
    /\ \A url \in CORE_ASSETS : caches[CACHE_NAME][url].status = 200


\* C24: session safety: in every state currentUser is the account of a
\* profile that exists and is verified; handleLogin logs the account in
\* exactly when the profile exists, the password is the stored one and
\* isVerified is true, handleVerifyEmail exactly when the submitted code is
\* the stored verificationCode, and a login or a verification that fails
\* leaves currentUser, the profiles and the passwords as they were.
C24_SessionSafety ==
    /\ [](currentUser # NoUser =>
            /\ userProfiles[currentUser] # NoProfile
            /\ userProfiles[currentUser].isVerified)
    /\ [][\A username \in Users, password \in Passwords :
            handleLogin(username, password) =>
                IF /\ userProfiles[username] # NoProfile
                   /\ userPasswords[username] = password
                   /\ userProfiles[username].isVerified
                THEN currentUser' = username
                ELSE UNCHANGED <<currentUser, userProfiles, userPasswords, profilesDb>>]_vars
    /\ [][\A code \in Codes :
            handleVerifyEmail(code) =>
                IF /\ loginScreen.userToVerify # NoUser
                   /\ userProfiles[loginScreen.userToVerify] # NoProfile
                   /\ userProfiles[loginScreen.userToVerify].verificationCode = code
                THEN currentUser' = loginScreen.userToVerify
                ELSE UNCHANGED <<currentUser, userProfiles, userPasswords, profilesDb>>]_vars

\* the account that registered is verified, logged in, and has changed its
\* profile
C24_Witness ==
    /\ currentUser = "ana"
    /\ effects = <<>>
    /\ userProfiles["ana"].isVerified
    /\ userProfiles["ana"].displayName = "Ana B."

\* the accounts whose e-mail is the given one, letter case apart
AccountsWithEmail(email) ==
    {u \in Users : /\ userProfiles[u] # NoProfile
                   /\ ToLowerCase(userProfiles[u].email) = ToLowerCase(email)}

\* C25: reset codes are valid once: a step of handleResetPassword changes
\* the password of an account only if the account has the e-mail of the
\* reset and the submitted code is the code stored for it; a code that
\* handleResetPassword or handleVerifyEmail accepts is cleared, so that the
\* same code submitted again is rejected; and a rejected code changes
\* neither the profiles, the passwords nor currentUser.
C25_ResetCodesValidOnce ==
    /\ [][\A code \in Codes, password \in Passwords, confirmPassword \in Passwords :
            handleResetPassword(code, password, confirmPassword) =>
                \A u \in Users :
                    /\ userPasswords'[u] # userPasswords[u] =>
                          /\ u \in AccountsWithEmail(loginScreen.emailToReset)
                          /\ userProfiles[u].verificationCode = code
                          /\ userPasswords'[u] = password
                    /\ (/\ u \in AccountsWithEmail(loginScreen.emailToReset)
                        /\ userProfiles[u].verificationCode = code
                        /\ password = confirmPassword
                        /\ Length(password) >= 6) =>
                          /\ userProfiles'[u].verificationCode = NoCode
                          /\ userPasswords'[u] = password
                          /\ handleResetPasswordError(userProfiles',
                                 loginScreen.emailToReset, code) = ErrorMessages.InvalidResetCode
                    /\ (/\ u \in AccountsWithEmail(loginScreen.emailToReset)
                        /\ userProfiles[u].verificationCode # code) =>
                          UNCHANGED <<userProfiles, userPasswords, profilesDb, currentUser>>]_vars
    /\ [][\A code \in Codes :
            handleVerifyEmail(code) =>
                LET u == loginScreen.userToVerify
                IN  IF userProfiles[u].verificationCode = code
                    THEN /\ userProfiles'[u].verificationCode = NoCode
                         /\ handleVerifyEmailError(userProfiles', u, code)
                                = ErrorMessages.InvalidVerificationCode
                    ELSE UNCHANGED <<userProfiles, userPasswords, profilesDb,
                                     currentUser>>]_vars

\* the password of 'admin' has been reset with the code that was issued for
\* its e-mail, and the code is cleared
C25_Witness ==
    /\ userPasswords["admin"] = "secret1"
    /\ userProfiles["admin"].verificationCode = NoCode
    /\ loginScreen.view = "login"
    /\ loginScreen.emailToReset = "admin@controlfin.app"

\* C26: an unverified account is recovered as the login error says: the
\* registration form submitted again for the username of an account that is
\* not verified (with a password the form accepts) issues a new verification
\* code for the account and shows the view where the code verifies it.
C26_RegisterAgainRecovers ==
    [][\A username \in Users, password \in Passwords, email \in Emails,
          verificationCode \in Codes :
            (/\ handleRegister(username, password, password, email, verificationCode)
             /\ Length(password) >= 6
             /\ userProfiles[username] # NoProfile
             /\ ~userProfiles[username].isVerified) =>
                /\ userProfiles'[username].verificationCode = verificationCode
                /\ loginScreen'.view = "verifyEmail"
                /\ loginScreen'.userToVerify = username]_vars


\* C27: chat replies stay in their session: the reply to a request made
\* while account A was logged in is appended to the chat history that was
\* loaded for A and is saved under no key but A's, also when it arrives
\* after A has logged out and B has logged in.
C27_RepliesStayInSession ==
    [][\A i \in 1..MaxSends, responseText \in Responses :
          handleSendResume(i, responseText) =>
              /\ ledgerOwner.memory = handleSendCalls[i].user
              /\ \A u \in Users :
                    localStorage'[u] # localStorage[u] => u = handleSendCalls[i].user]_vars

\* the calls of getFinAssistResponse that have not settled
OutstandingCalls == {i \in 1..Len(handleSendCalls) : handleSendCalls[i].pc = "await"}

\* C28: chat request lifecycle: at most one call of the assistant is
\* outstanding at a time; the step in which the call of the FinAssist on the
\* screen settles, resolved or rejected, leaves isLoading false; and isLoading
\* true leads to isLoading false.
C28_ChatRequestLifecycle ==
    /\ [](Cardinality(OutstandingCalls) <= 1)
    /\ [][\A i \in 1..MaxSends :
            (/\ i <= Len(handleSendCalls)
             /\ handleSendCalls[i].pc = "await"
             /\ handleSendCalls[i].mounted
             /\ handleSendCalls'[i].pc # "await") => ~isLoading']_vars
    /\ (isLoading ~> ~isLoading)


\* the places of the Tree Builder output: <<i, 0>> is root i, <<i, j>> is
\* sub-item j of root i
TreePlaces(txs) ==
    LET tree == transactionsWithSubItems(txs)
    IN  {<<i, 0>> : i \in 1..Len(tree)} \cup
        UNION {{<<i, j>> : j \in 1..Len(tree[i].subItems)} : i \in 1..Len(tree)}

\* the id of the node at a place
TreeIdAt(txs, place) ==
    LET tree == transactionsWithSubItems(txs)
    IN  IF place[2] = 0 THEN tree[place[1]].id ELSE tree[place[1]].subItems[place[2]]

\* C29: the display tree loses and duplicates nothing: every record of the
\* flat list is at exactly one place of the Tree Builder output, as a root or
\* in the subItems of a root, and the number of roots plus the number of
\* their sub-items is the number of flat records.
C29_TreeLosesNothing ==
    /\ \A k \in 1..Len(transactions) :
          Cardinality({place \in TreePlaces(transactions) :
                          /\ TreeIdAt(transactions, place) = transactions[k].id
                          /\ TransactionMapEntry(transactions, transactions[k].id)
                                 = transactions[k]}) = 1
    /\ Cardinality(TreePlaces(transactions)) = Len(transactions)


\* the names and ids of a list of categories
CategoryKeys(cats) == {<<c.id, c.name>> : c \in Range(cats)}

\* C30: save/load round trip: the load effect of an account that finds a
\* saved item (at a login, or after a change of the profile) leaves the
\* transaction list that was saved and categories with the same set of names
\* and ids as the saved ones, so that a category deleted before the save is
\* absent after the load.
C30_SaveLoadRoundTrip ==
    [][(/\ effects # <<>>
        /\ Head(effects).kind = "load"
        /\ localStorage[Head(effects).user] # NoBlob) =>
            LET saved == JSONParse(localStorage[Head(effects).user])
            IN  /\ transactions' = saved.transactions
                /\ CategoryKeys(categories') = CategoryKeys(saved.categories)]_vars

====
